---------------------------- MODULE Spec2Model ----------------------------
(***************************************************************************)
(* A model of the SysDB Go client (github.com/sysdb/go): the pooled        *)
(* Client of client/client.go, the connections (Conn) it hands out, and    *)
(* the server at the other end of every connection.                        *)
(*                                                                         *)
(* The pool is the buffered channel c.conns.  Connect fills it, Call takes *)
(* one connection out of it and puts it back in a deferred function, Close *)
(* drains it, closes the channel and sets the field to nil.                *)
(***************************************************************************)
EXTENDS Integers, Sequences, FiniteSets, TLC

(***************************************************************************)
(* Bounds of the model.                                                    *)
(***************************************************************************)
\* cap(c.conns): the number of connections of a Client.
Capacity == 2
\* The number of goroutines that use the Client.
NumCallers == 3
\* The number of Calls issued over a run, all callers together.
MaxCalls == 3
\* The number of transport faults (broken connection, refused dial, failed
\* handshake) the environment injects over a run.
MaxFaults == 2
\* The number of LOG messages the server sends over a run of the callers of
\* an open Client.
MaxLogs == 1

Callers == 1..NumCallers
Conns == 1..Capacity

(***************************************************************************)
(* proto: message types.                                                   *)
(***************************************************************************)
ConnectionOK == 0
ConnectionError == 1
ConnectionLog == 2
ConnectionData == 100
ConnectionQuery == 3

\* A nil *Conn, as received from a closed channel; NoConn: no connection held.
NilConn == 0 - 1
NoConn == 0

Message(t, raw) == [Type |-> t, Raw |-> raw]
NoMsg == Message(0 - 1, <<>>)

\* The request of the k-th Call of a run: its body names the Call.
Request(k) == Message(ConnectionQuery, <<k>>)

\* The bodies of the LOG messages the server sends: a 4-byte status
\* sub-header, then the text.  One body is the sub-header alone.
LogBodies == { <<0, 0, 0, 6>>, <<0, 0, 0, 6, 65>>, <<0, 0, 0, 6, 66>> }
TerminalTypes == { ConnectionOK, ConnectionError, ConnectionData }

RECURSIVE SeqsUpTo(_, _)
SeqsUpTo(S, n) ==
    IF n = 0 THEN { <<>> }
    ELSE LET shorter == SeqsUpTo(S, n - 1)
         IN  shorter \cup { Append(q, x) : q \in { r \in shorter : Len(r) = n - 1 }, x \in S }

\* Raw[4:] of a body longer than 4 bytes.
RawFrom4(raw) == SubSeq(raw, 5, Len(raw))

VARIABLES
    mainPc,      \* the goroutine that runs Connect and Close
    idx,         \* the loop variable i of Connect and of Close
    connsField,  \* the field c.conns: "chan" or "nil"
    buf,         \* the buffer of the channel
    chClosed,    \* whether the channel was closed
    sess,        \* the Conns: state and transport
    net,         \* what is in flight on the transport of each Conn
    faults,      \* the faults the environment may still inject
    logsLeft,    \* the LOG messages the server may still send
    serverTypes, \* the types of the terminal replies of the server
    calls,       \* Calls issued so far
    crashed,     \* a goroutine panicked and the process is gone
    pc,          \* where each caller is in Call
    acqCh,       \* the value of c.conns the caller receives from
    conn,        \* the connection the caller holds
    req,         \* the number of the caller's Call
    result,      \* what the caller's Call returned
    logs,        \* what the caller's Call wrote to the log
    rcvd,        \* the replies the caller's Call received
    stat,        \* counts of what the caller's Call did
    closedCnt,   \* how often Client.Close closed each Conn
    created,     \* the Conns Dial returned
    unread,      \* per Conn, the requests sent on it whose terminal reply
                 \* has not been read from it
    intBits,     \* the width of the type int of the build: 32 or 64
    wire,        \* proto: the bytes written to a stream and not yet read
    wireEnded,   \* proto: the stream has ended after the bytes of wire
    sent,        \* proto: the calls of Encode, in their order
    decoded,     \* proto: the calls of Decode, in their order
    reply,       \* what Client.Call returns to Query or ServerVersion
    answer,      \* what was made of reply, and by which function
    dur,         \* sysdb: a Duration
    text,        \* sysdb: the result of Duration.MarshalJSON
    parsed,      \* sysdb: the result of Duration.UnmarshalJSON
    query,       \* client: the query q of QueryString
    args         \* client: the arguments of QueryString

vars == << mainPc, idx, connsField, buf, chClosed, sess, net, faults, logsLeft,
           serverTypes, calls, crashed, pc, acqCh, conn, req, result, logs, rcvd, stat, closedCnt,
           created, unread, intBits, wire, wireEnded, sent, decoded, reply, answer,
           dur, text, parsed, query, args >>

\* The variables of the packages proto and sysdb and of the functions of
\* the Client that work on the result of a Call.
libVars == << intBits, wire, wireEnded, sent, decoded, reply, answer, dur, text, parsed,
             query, args >>

clientVars == << mainPc, idx, connsField, buf, chClosed, closedCnt, created >>
callVars == << pc, acqCh, conn, req, result, logs, rcvd, stat >>

\* A uint32, as its two 16-bit halves.
U32(hi, lo) == [hi |-> hi, lo |-> lo]
\* A nil *Message, where the type of a message is a uint32.
NilMessage == Message(U32(0 - 1, 0 - 1), <<>>)

\* QueryString is not called.
QueryIdle == query = <<>> /\ args = <<>>

\* Nothing is encoded, decoded, unmarshaled or formatted.
LibIdle ==
    /\ intBits = 64
    /\ wire = <<>>
    /\ wireEnded = FALSE
    /\ sent = <<>>
    /\ decoded = <<>>
    /\ reply = [err |-> TRUE, msg |-> NilMessage]
    /\ answer = [op |-> "none"]
    /\ dur = [s |-> 0, ns |-> 0]
    /\ text = <<>>
    /\ parsed = [op |-> "none"]
    /\ query = <<>>
    /\ args = <<>>


(***************************************************************************)
(* Conn: one connection to the server.  A Conn is Connected, and then owns *)
(* a transport, or Disconnected.  tr is the transport it owns (0: none)    *)
(* and gen counts the transports it has dialed, so that every transport of *)
(* a Conn has its own number.                                              *)
(***************************************************************************)
NoSess == [state |-> "None", tr |-> 0, gen |-> 0]
\* What is in flight on a transport: the requests the server has not yet
\* answered, the replies the client has not yet read, and whether the
\* transport has failed.
NoNet == [broken |-> FALSE, outq |-> <<>>, inq |-> <<>>]

\* What the environment does to one connect(): whether the dial succeeds,
\* and the type of the server's reply to the STARTUP message.
ConnectOutcomes == [dial : BOOLEAN, hs : {ConnectionOK, ConnectionError, ConnectionLog}]
GoodConnect == [dial |-> TRUE, hs |-> ConnectionOK]

\* The outcomes to consider for an operation on Conn c with transport n:
\* connect() runs only when c has no transport or the transport has failed.
ConnectChoices(c, n) ==
    IF c.state = "Connected" /\ ~n.broken THEN {GoodConnect} ELSE ConnectOutcomes

\* connect() succeeds when the dial does and the handshake reply is OK.
ConnectOK(o) == o.dial /\ o.hs = ConnectionOK

IsConnected(c) == c.state = "Connected"

\* Conn.Close: releases the transport if there is one.
ConnClose(c) == [c EXCEPT !.state = IF @ = "None" THEN @ ELSE "Disconnected", !.tr = 0]

\* A connect() that hands the Conn the transport it had before.
ConnConnectSameTransport(c, o) ==
    IF ConnectOK(o)
    THEN [state |-> "Connected", tr |-> c.gen, gen |-> c.gen]
    ELSE [c EXCEPT !.state = "Disconnected", !.tr = 0]

\* connect(): dial and handshake; Connected with a new transport, or
\* Disconnected.
ConnConnect(c, o) ==
    IF ConnectOK(o)
    THEN [state |-> "Connected", tr |-> c.gen + 1, gen |-> c.gen + 1]
    ELSE [c EXCEPT !.state = "Disconnected", !.tr = 0]

\* A Send that reconnects and resends once more when the resend fails.
ConnSendRetryAgain(c, n, m, o, fail2) ==
    LET enc1 == IF IsConnected(c) /\ n.broken THEN 1 ELSE 0
        c2 == ConnConnect(ConnClose(c), o)
    IN  IF IsConnected(c) /\ ~n.broken
        THEN [sess |-> c, net |-> [n EXCEPT !.outq = Append(@, m)], err |-> FALSE,
              connects |-> 0, encodes |-> 1, cost |-> 0]
        ELSE IF ~ConnectOK(o)
        THEN [sess |-> c2, net |-> NoNet, err |-> TRUE,
              connects |-> 1, encodes |-> enc1, cost |-> 1]
        ELSE IF fail2
        THEN [sess |-> ConnConnect(ConnClose(c2), o), net |-> [NoNet EXCEPT !.outq = <<m>>],
              err |-> FALSE, connects |-> 2, encodes |-> enc1 + 2, cost |-> 1]
        ELSE [sess |-> c2, net |-> [NoNet EXCEPT !.outq = <<m>>], err |-> FALSE,
              connects |-> 1, encodes |-> enc1 + 1, cost |-> 0]

\* Conn.Send of m on Conn c whose transport carries n.  o is the outcome of
\* the connect() it may attempt and fail2 whether the resent message fails.
\* The result: the Conn and its transport afterwards, whether Send returns
\* an error, and the number of connect()s, of Encodes and of faults used.
ConnSend(c, n, m, o, fail2) ==
    IF IsConnected(c) /\ ~n.broken
    THEN [sess |-> c, net |-> [n EXCEPT !.outq = Append(@, m)], err |-> FALSE,
          connects |-> 0, encodes |-> 1, cost |-> 0]
    ELSE LET enc1 == IF IsConnected(c) THEN 1 ELSE 0
             c1 == IF IsConnected(c) THEN ConnClose(c) ELSE c
             c2 == ConnConnect(c1, o)
         IN  IF ~ConnectOK(o)
             THEN [sess |-> c2, net |-> NoNet, err |-> TRUE,
                   connects |-> 1, encodes |-> enc1, cost |-> 1]
             ELSE IF fail2
             THEN [sess |-> c2, net |-> [NoNet EXCEPT !.broken = TRUE], err |-> TRUE,
                   connects |-> 1, encodes |-> enc1 + 1, cost |-> 1]
             ELSE [sess |-> c2, net |-> [NoNet EXCEPT !.outq = <<m>>], err |-> FALSE,
                   connects |-> 1, encodes |-> enc1 + 1, cost |-> 0]

\* Decode on a transport: a message when one has arrived, an error when the
\* transport has failed, and otherwise it blocks.
CanDecode(n) == ~n.broken /\ n.inq # <<>>
DecodeFails(n) == n.broken

\* Conn.Receive up to its first result: "msg" (a message was decoded),
\* "err" (Decode failed and so did connect()), or "retry" (Decode failed or
\* there was no transport, connect() succeeded, and Receive now decodes
\* from the new transport).  Enabled when the first Decode does not block.
ConnReceiveReady(c, n) == ~IsConnected(c) \/ CanDecode(n) \/ DecodeFails(n)
ConnReceive(c, n, o) ==
    IF IsConnected(c) /\ CanDecode(n)
    THEN [sess |-> c, net |-> [n EXCEPT !.inq = Tail(@)], out |-> "msg",
          msg |-> Head(n.inq), cost |-> 0]
    ELSE LET c1 == IF IsConnected(c) THEN ConnClose(c) ELSE c
             c2 == ConnConnect(c1, o)
         IN  IF ConnectOK(o)
             THEN [sess |-> c2, net |-> NoNet, out |-> "retry", msg |-> NoMsg, cost |-> 0]
             ELSE [sess |-> c2, net |-> NoNet, out |-> "err", msg |-> NoMsg, cost |-> 1]

\* The second Decode of Conn.Receive, from the transport connect() opened.
ConnReceiveRetry(c, n) ==
    IF CanDecode(n)
    THEN [sess |-> c, net |-> [n EXCEPT !.inq = Tail(@)], out |-> "msg", msg |-> Head(n.inq)]
    ELSE [sess |-> c, net |-> n, out |-> "err", msg |-> NoMsg]

(***************************************************************************)
(* The channel c.conns.                                                    *)
(***************************************************************************)
\* The value a goroutine reads from the field c.conns.  Close writes nil to
\* it without synchronisation: a reader may still see the channel.
ReadConns == IF connsField = "nil" THEN {"nil", "chan"} ELSE {"chan"}

\* A receive that is ready only once the channel is closed.
ChanCanRecvClosedOnly == chClosed
\* A receive that leaves the value in the buffer.
ChanRecvRestKeep(b) == b
\* A send that loses the value.
ChanSendDrop(b, v) == b

\* <-ch: ready when the buffer holds a value or the channel is closed.
ChanCanRecv == buf # <<>> \/ chClosed
ChanRecvValue == IF buf # <<>> THEN Head(buf) ELSE NilConn
ChanRecvRest(b) == IF b # <<>> THEN Tail(b) ELSE b
\* ch <- v on an open channel with room.
ChanSend(b, v) == Append(b, v)

(***************************************************************************)
(* Client.Call: what it does with one reply.                               *)
(***************************************************************************)
\* A switch without the case of LOG: a LOG message is returned.
ClassifyNoLog(res) == IF res.Type = ConnectionError THEN "fail" ELSE "return"
\* A switch that takes ERROR for a message to skip.
ClassifySkipError(res) ==
    IF res.Type \in {ConnectionLog, ConnectionError} THEN "log" ELSE "return"

\* The switch of Call on a received message: "fail" for ERROR, "return" for
\* any other type but LOG, "log" for LOG.
Classify(res) ==
    IF res.Type = ConnectionError THEN "fail"
    ELSE IF res.Type # ConnectionLog THEN "return"
    ELSE "log"

\* A log of every LOG message that has its sub-header, text or no text.
LogLinesFrom4(res) == IF Len(res.Raw) >= 4 THEN << RawFrom4(res.Raw) >> ELSE << >>

\* What Call writes to the log for a LOG message.
LogLines(res) == IF Len(res.Raw) > 4 THEN << RawFrom4(res.Raw) >> ELSE << >>

NoResult == [kind |-> "none", msg |-> NoMsg]
NoStat == [connects |-> 0, encodes |-> 0, sends |-> 0, released |-> 0,
           afterClose |-> FALSE, sendErr |-> FALSE, wasConnected |-> FALSE, tr0 |-> 0,
           waited |-> FALSE]

\* Connect is called.  The server of this specification answers every
\* request with a DATA reply and sends no LOG messages.
Init ==
    /\ LibIdle
    /\ mainPc = "connect"
    /\ idx = 0
    /\ connsField = "chan"
    /\ buf = <<>>
    /\ chClosed = FALSE
    /\ sess = [s \in Conns |-> NoSess]
    /\ net = [s \in Conns |-> NoNet]
    /\ faults = MaxFaults
    /\ logsLeft = 0
    /\ serverTypes = { ConnectionData }
    /\ calls = 0
    /\ crashed = FALSE
    /\ pc = [p \in Callers |-> "idle"]
    /\ acqCh = [p \in Callers |-> "chan"]
    /\ conn = [p \in Callers |-> NoConn]
    /\ req = [p \in Callers |-> 0]
    /\ result = [p \in Callers |-> NoResult]
    /\ logs = [p \in Callers |-> <<>>]
    /\ rcvd = [p \in Callers |-> <<>>]
    /\ stat = [p \in Callers |-> NoStat]
    /\ closedCnt = [s \in Conns |-> 0]
    /\ created = {}
    /\ unread = [s \in Conns |-> {}]

(***************************************************************************)
(* Connect and Close, run by one goroutine.                                *)
(***************************************************************************)
\* Whether Connect has returned a Client.
ClientExists == mainPc \in {"ready", "closing", "closed"}

\* A loop of Connect that is one round short.
ConnectLoopDoneEarly(i) == ~(i < Capacity - 1)

\* The loop of Connect ends after cap(c.conns) rounds.
ConnectLoopDone(i) == ~(i < Capacity)

\* One round of the loop of Connect: Dial, and return the error if it
\* fails, else put the Conn into the channel.
ConnectDial ==
    /\ UNCHANGED unread
    /\ ~crashed
    /\ UNCHANGED libVars
    /\ mainPc = "connect"
    /\ ~ConnectLoopDone(idx)
    /\ \E o \in ConnectOutcomes :
          IF ConnectOK(o)
          THEN /\ sess' = [sess EXCEPT ![idx + 1] = ConnConnect(NoSess, o)]
               /\ created' = created \cup {idx + 1}
               /\ buf' = ChanSend(buf, idx + 1)
               /\ idx' = idx + 1
               /\ UNCHANGED << mainPc, faults, logsLeft, serverTypes >>
          ELSE /\ faults > 0
               /\ faults' = faults - 1
               /\ mainPc' = "failed"
               /\ UNCHANGED << sess, created, buf, idx, logsLeft, serverTypes >>
    /\ UNCHANGED << connsField, chClosed, net, calls, crashed, closedCnt >>
    /\ UNCHANGED callVars

\* The loop of Connect is over: return the Client.
ConnectReturn ==
    /\ UNCHANGED unread
    /\ ~crashed
    /\ UNCHANGED libVars
    /\ mainPc = "connect"
    /\ ConnectLoopDone(idx)
    /\ mainPc' = "ready"
    /\ idx' = 0
    /\ UNCHANGED << connsField, buf, chClosed, sess, net, faults, logsLeft, serverTypes, calls, crashed,
                    closedCnt, created >>
    /\ UNCHANGED callVars

\* A loop of Close that is one round short.
CloseRoundsShort == Capacity - 1

\* The number of rounds of the loop of Close.
CloseRounds == Capacity

\* Client.Close is called.
CloseStart ==
    /\ UNCHANGED unread
    /\ ~crashed
    /\ UNCHANGED libVars
    /\ mainPc = "ready"
    /\ mainPc' = "closing"
    /\ idx' = 0
    /\ UNCHANGED << connsField, buf, chClosed, sess, net, faults, logsLeft, serverTypes, calls, crashed,
                    closedCnt, created >>
    /\ UNCHANGED callVars

\* One round of the loop of Close: receive a Conn and close it.
CloseTake ==
    /\ UNCHANGED unread
    /\ ~crashed
    /\ UNCHANGED libVars
    /\ mainPc = "closing"
    /\ ~chClosed
    /\ idx < CloseRounds
    /\ buf # <<>>
    /\ LET s == Head(buf)
       IN  /\ sess' = [sess EXCEPT ![s] = ConnClose(@)]
           /\ net' = [net EXCEPT ![s] = NoNet]
           /\ closedCnt' = [closedCnt EXCEPT ![s] = @ + 1]
    /\ buf' = ChanRecvRest(buf)
    /\ idx' = idx + 1
    /\ UNCHANGED << mainPc, connsField, chClosed, faults, logsLeft, serverTypes, calls, crashed, created >>
    /\ UNCHANGED callVars

\* close(c.conns)
CloseChan ==
    /\ UNCHANGED unread
    /\ ~crashed
    /\ UNCHANGED libVars
    /\ mainPc = "closing"
    /\ ~chClosed
    /\ idx = CloseRounds
    /\ chClosed' = TRUE
    /\ UNCHANGED << mainPc, idx, connsField, buf, sess, net, faults, logsLeft, serverTypes, calls, crashed,
                    closedCnt, created >>
    /\ UNCHANGED callVars

\* c.conns = nil, and Close returns.
CloseNil ==
    /\ UNCHANGED unread
    /\ ~crashed
    /\ UNCHANGED libVars
    /\ mainPc = "closing"
    /\ chClosed
    /\ connsField' = "nil"
    /\ mainPc' = "closed"
    /\ UNCHANGED << idx, buf, chClosed, sess, net, faults, logsLeft, serverTypes, calls, crashed,
                    closedCnt, created >>
    /\ UNCHANGED callVars

(***************************************************************************)
(* Client.Call, run by every caller.                                       *)
(***************************************************************************)
\* Call is entered: c.conns is read, for the receive that follows.  The
\* callers are alike: the idle caller of the least number issues the Call.
CallStart(p) ==
    /\ UNCHANGED unread
    /\ ~crashed
    /\ UNCHANGED libVars
    /\ ClientExists
    /\ pc[p] = "idle"
    /\ \A q \in Callers : q < p => pc[q] # "idle"
    /\ calls < MaxCalls
    /\ calls' = calls + 1
    /\ \E ch \in ReadConns : acqCh' = [acqCh EXCEPT ![p] = ch]
    /\ pc' = [pc EXCEPT ![p] = "acquire"]
    /\ req' = [req EXCEPT ![p] = calls + 1]
    /\ result' = [result EXCEPT ![p] = NoResult]
    /\ logs' = [logs EXCEPT ![p] = <<>>]
    /\ rcvd' = [rcvd EXCEPT ![p] = <<>>]
    /\ stat' = [stat EXCEPT ![p] = [NoStat EXCEPT !.afterClose = (mainPc = "closed"),
                                                  !.waited = (buf = <<>>)]]
    /\ UNCHANGED << conn, faults, logsLeft, serverTypes, crashed, sess, net >>
    /\ UNCHANGED clientVars

\* conn := <-c.conns.  A receive from a nil channel blocks forever.
Acquire(p) ==
    /\ UNCHANGED unread
    /\ ~crashed
    /\ UNCHANGED libVars
    /\ pc[p] = "acquire"
    /\ acqCh[p] = "chan"
    /\ ChanCanRecv
    /\ conn' = [conn EXCEPT ![p] = ChanRecvValue]
    /\ buf' = ChanRecvRest(buf)
    /\ pc' = [pc EXCEPT ![p] = "send"]
    /\ UNCHANGED << mainPc, idx, connsField, chClosed, closedCnt, created >>
    /\ UNCHANGED << acqCh, req, result, logs, rcvd, stat >>
    /\ UNCHANGED << sess, net, faults, logsLeft, serverTypes, calls, crashed >>

\* Call has its result and runs the deferred function next.
Finish(p, kind, m) ==
    /\ result' = [result EXCEPT ![p] = [kind |-> kind, msg |-> m]]
    /\ pc' = [pc EXCEPT ![p] = "defer"]

\* err := conn.Send(req).  On a nil Conn this dereferences nil and panics.
DoSend(p) ==
    /\ ~crashed
    /\ UNCHANGED libVars
    /\ pc[p] = "send"
    /\ IF conn[p] = NilConn
       THEN /\ Finish(p, "panic", NoMsg)
            /\ UNCHANGED << sess, net, faults, logsLeft, serverTypes, stat, unread >>
       ELSE \E o \in ConnectChoices(sess[conn[p]], net[conn[p]]),
               fail2 \in IF ConnectChoices(sess[conn[p]], net[conn[p]]) = {GoodConnect}
                         THEN {FALSE} ELSE BOOLEAN :
               LET s == conn[p]
                   r == ConnSend(sess[s], net[s], Request(req[p]), o, fail2)
               IN  /\ r.cost <= faults
                   /\ faults' = faults - r.cost
                   /\ UNCHANGED << logsLeft, serverTypes >>
                   /\ sess' = [sess EXCEPT ![s] = r.sess]
                   /\ net' = [net EXCEPT ![s] = r.net]
                   /\ unread' = IF r.err THEN unread
                                ELSE [unread EXCEPT ![s] = @ \cup {req[p]}]
                   /\ stat' = [stat EXCEPT ![p].connects = r.connects,
                                           ![p].encodes = r.encodes,
                                           ![p].sends = IF r.err THEN 0 ELSE 1,
                                           ![p].sendErr = r.err,
                                           ![p].wasConnected = IsConnected(sess[s]),
                                           ![p].tr0 = sess[s].tr]
                   /\ IF r.err
                      THEN Finish(p, "senderr", NoMsg)
                      ELSE /\ pc' = [pc EXCEPT ![p] = "recv"]
                           /\ UNCHANGED result
    /\ UNCHANGED << acqCh, conn, req, logs, rcvd, calls, crashed >>
    /\ UNCHANGED clientVars

\* The requests of a Conn still unanswered once reply m was read from it: a
\* reply that is not a LOG message answers the request whose body it carries.
Answered(pending, out, m) ==
    IF out = "msg" /\ m.Type # ConnectionLog THEN pending \ {m.Raw[1]} ELSE pending

\* The switch of the loop of Call on the result of conn.Receive.
Handle(p, out, m) ==
    IF out = "err"
    THEN /\ Finish(p, "recverr", NoMsg)
         /\ UNCHANGED << logs, rcvd >>
    ELSE /\ rcvd' = [rcvd EXCEPT ![p] = Append(@, m)]
         /\ IF Classify(m) = "fail"
            THEN /\ Finish(p, "reqfailed", m)
                 /\ UNCHANGED logs
            ELSE IF Classify(m) = "return"
            THEN /\ Finish(p, "reply", m)
                 /\ UNCHANGED logs
            ELSE /\ logs' = [logs EXCEPT ![p] = @ \o LogLines(m)]
                 /\ pc' = [pc EXCEPT ![p] = "recv"]
                 /\ UNCHANGED result

\* res, err := conn.Receive(), up to the reconnect inside it.
DoRecv(p) ==
    /\ ~crashed
    /\ UNCHANGED libVars
    /\ pc[p] = "recv"
    /\ ConnReceiveReady(sess[conn[p]], net[conn[p]])
    /\ \E o \in ConnectChoices(sess[conn[p]], net[conn[p]]) :
          LET s == conn[p]
              r == ConnReceive(sess[s], net[s], o)
          IN  /\ r.cost <= faults
              /\ faults' = faults - r.cost
              /\ UNCHANGED << logsLeft, serverTypes >>
              /\ sess' = [sess EXCEPT ![s] = r.sess]
              /\ net' = [net EXCEPT ![s] = r.net]
              /\ unread' = [unread EXCEPT ![s] = Answered(@, r.out, r.msg)]
              /\ IF r.out = "retry"
                 THEN /\ pc' = [pc EXCEPT ![p] = "recv2"]
                      /\ UNCHANGED << result, logs, rcvd >>
                 ELSE Handle(p, r.out, r.msg)
    /\ UNCHANGED << acqCh, conn, req, stat, calls, crashed >>
    /\ UNCHANGED clientVars

\* conn.Receive after its reconnect: Decode from the new transport.
DoRecvRetry(p) ==
    /\ ~crashed
    /\ UNCHANGED libVars
    /\ pc[p] = "recv2"
    /\ CanDecode(net[conn[p]]) \/ DecodeFails(net[conn[p]])
    /\ LET s == conn[p]
           r == ConnReceiveRetry(sess[s], net[s])
       IN  /\ sess' = [sess EXCEPT ![s] = r.sess]
           /\ net' = [net EXCEPT ![s] = r.net]
           /\ unread' = [unread EXCEPT ![s] = Answered(@, r.out, r.msg)]
           /\ Handle(p, r.out, r.msg)
    /\ UNCHANGED << acqCh, conn, req, stat, calls, crashed, faults, logsLeft, serverTypes >>
    /\ UNCHANGED clientVars

\* The deferred function: c.conns <- conn.  c.conns is read again.  A send
\* on a nil channel blocks forever, a send on a closed channel panics, and a
\* panic of Call goes on once the deferred function has returned.
Release(p) ==
    /\ UNCHANGED unread
    /\ ~crashed
    /\ UNCHANGED libVars
    /\ pc[p] = "defer"
    /\ \E ch \in ReadConns :
          IF ch = "nil"
          THEN /\ pc' = [pc EXCEPT ![p] = "blocked"]
               /\ UNCHANGED << buf, conn, stat, crashed >>
          ELSE IF chClosed
          THEN /\ pc' = [pc EXCEPT ![p] = "panicked"]
               /\ crashed' = TRUE
               /\ UNCHANGED << buf, conn, stat >>
          ELSE /\ Len(buf) < Capacity
               /\ buf' = ChanSend(buf, conn[p])
               /\ conn' = [conn EXCEPT ![p] = NoConn]
               /\ stat' = [stat EXCEPT ![p].released = @ + 1]
               /\ pc' = [pc EXCEPT ![p] = IF result[p].kind = "panic" THEN "panicked" ELSE "returned"]
               /\ crashed' = (result[p].kind = "panic")
    /\ UNCHANGED << mainPc, idx, connsField, chClosed, closedCnt, created >>
    /\ UNCHANGED << acqCh, req, result, logs, rcvd >>
    /\ UNCHANGED << sess, net, faults, logsLeft, serverTypes, calls >>

\* Call has returned to its caller, which is then free to call again.
Return(p) ==
    /\ UNCHANGED unread
    /\ ~crashed
    /\ UNCHANGED libVars
    /\ pc[p] = "returned"
    /\ pc' = [pc EXCEPT ![p] = "idle"]
    /\ req' = [req EXCEPT ![p] = 0]
    /\ result' = [result EXCEPT ![p] = NoResult]
    /\ logs' = [logs EXCEPT ![p] = <<>>]
    /\ rcvd' = [rcvd EXCEPT ![p] = <<>>]
    /\ stat' = [stat EXCEPT ![p] = NoStat]
    /\ UNCHANGED << acqCh, conn, sess, net, faults, logsLeft, serverTypes, calls, crashed >>
    /\ UNCHANGED clientVars

(***************************************************************************)
(* The environment: the server and the network.                            *)
(***************************************************************************)
LogMessages(bodies) == [k \in 1..Len(bodies) |-> Message(ConnectionLog, bodies[k])]

\* The server answers the oldest request of a connection: LOG messages,
\* then one reply that is not a LOG message and carries the request's body.
ServerReply(s) ==
    /\ UNCHANGED unread
    /\ ~crashed
    /\ UNCHANGED libVars
    /\ IsConnected(sess[s])
    /\ ~net[s].broken
    /\ net[s].outq # <<>>
    /\ \E bodies \in SeqsUpTo(LogBodies, logsLeft), t \in serverTypes :
          /\ net' = [net EXCEPT ![s].outq = Tail(@),
                                ![s].inq = @ \o LogMessages(bodies)
                                             \o << Message(t, Head(net[s].outq).Raw) >>]
          /\ logsLeft' = logsLeft - Len(bodies)
    /\ UNCHANGED serverTypes
    /\ UNCHANGED << sess, faults, calls, crashed >>
    /\ UNCHANGED clientVars
    /\ UNCHANGED callVars

\* The transport of a Conn fails: what was in flight on it is lost, and
\* reads and writes on it fail from now on.
BreakTransport(s) ==
    /\ UNCHANGED unread
    /\ ~crashed
    /\ UNCHANGED libVars
    /\ IsConnected(sess[s])
    /\ ~net[s].broken
    /\ faults > 0
    /\ faults' = faults - 1
    /\ UNCHANGED << logsLeft, serverTypes >>
    /\ net' = [net EXCEPT ![s] = [NoNet EXCEPT !.broken = TRUE]]
    /\ UNCHANGED << sess, calls, crashed >>
    /\ UNCHANGED clientVars
    /\ UNCHANGED callVars

Next ==
    \/ ConnectDial
    \/ ConnectReturn
    \/ CloseStart
    \/ CloseTake
    \/ CloseChan
    \/ CloseNil
    \/ \E p \in Callers : CallStart(p)
    \/ \E p \in Callers : Acquire(p)
    \/ \E p \in Callers : DoSend(p)
    \/ \E p \in Callers : DoRecv(p)
    \/ \E p \in Callers : DoRecvRetry(p)
    \/ \E p \in Callers : Release(p)
    \/ \E p \in Callers : Return(p)
    \/ \E s \in Conns : ServerReply(s)
    \/ \E s \in Conns : BreakTransport(s)

Spec == Init /\ [][Next]_vars

(***************************************************************************)
(* One caller on a Client that Connect has returned and nobody closes: the *)
(* Calls of a run follow one another.  The server sends more LOG messages  *)
(* and every type of reply, and the network fails more often.              *)
(***************************************************************************)
\* Faults over a run of one caller.
MaxCallFaults == 3
\* LOG messages over a run of one caller.
MaxCallLogs == 2

InitCall ==
    /\ LibIdle
    /\ mainPc = "ready"
    /\ idx = 0
    /\ connsField = "chan"
    /\ buf = [k \in 1..Capacity |-> k]
    /\ chClosed = FALSE
    /\ sess = [s \in Conns |-> ConnConnect(NoSess, GoodConnect)]
    /\ net = [s \in Conns |-> NoNet]
    /\ faults = MaxCallFaults
    /\ logsLeft = MaxCallLogs
    /\ serverTypes = TerminalTypes
    /\ calls = 0
    /\ crashed = FALSE
    /\ pc = [p \in Callers |-> IF p = 1 THEN "idle" ELSE "off"]
    /\ acqCh = [p \in Callers |-> "chan"]
    /\ conn = [p \in Callers |-> NoConn]
    /\ req = [p \in Callers |-> 0]
    /\ result = [p \in Callers |-> NoResult]
    /\ logs = [p \in Callers |-> <<>>]
    /\ rcvd = [p \in Callers |-> <<>>]
    /\ stat = [p \in Callers |-> NoStat]
    /\ closedCnt = [s \in Conns |-> 0]
    /\ created = Conns
    /\ unread = [s \in Conns |-> {}]

NextCall ==
    \/ \E p \in Callers : CallStart(p)
    \/ \E p \in Callers : Acquire(p)
    \/ \E p \in Callers : DoSend(p)
    \/ \E p \in Callers : DoRecv(p)
    \/ \E p \in Callers : DoRecvRetry(p)
    \/ \E p \in Callers : Release(p)
    \/ \E p \in Callers : Return(p)
    \/ \E s \in Conns : ServerReply(s)
    \/ \E s \in Conns : BreakTransport(s)

CallSpec == InitCall /\ [][NextCall]_vars

(***************************************************************************)
(* All callers on a Client that Connect has returned and nobody closes.    *)
(***************************************************************************)
\* The server sends LOG messages, and replies of type ERROR and DATA.
InitPool ==
    /\ LibIdle
    /\ mainPc = "ready"
    /\ idx = 0
    /\ connsField = "chan"
    /\ buf = [k \in 1..Capacity |-> k]
    /\ chClosed = FALSE
    /\ sess = [s \in Conns |-> ConnConnect(NoSess, GoodConnect)]
    /\ net = [s \in Conns |-> NoNet]
    /\ faults = MaxFaults
    /\ logsLeft = MaxLogs
    /\ serverTypes = { ConnectionError, ConnectionData }
    /\ calls = 0
    /\ crashed = FALSE
    /\ pc = [p \in Callers |-> "idle"]
    /\ acqCh = [p \in Callers |-> "chan"]
    /\ conn = [p \in Callers |-> NoConn]
    /\ req = [p \in Callers |-> 0]
    /\ result = [p \in Callers |-> NoResult]
    /\ logs = [p \in Callers |-> <<>>]
    /\ rcvd = [p \in Callers |-> <<>>]
    /\ stat = [p \in Callers |-> NoStat]
    /\ closedCnt = [s \in Conns |-> 0]
    /\ created = Conns
    /\ unread = [s \in Conns |-> {}]

PoolSpec == InitPool /\ [][NextCall]_vars

(***************************************************************************)
(* The same under fair scheduling, with a server that answers every        *)
(* request with a DATA reply and sends no LOG messages.                    *)
(***************************************************************************)
InitFair ==
    /\ LibIdle
    /\ mainPc = "ready"
    /\ idx = 0
    /\ connsField = "chan"
    /\ buf = [k \in 1..Capacity |-> k]
    /\ chClosed = FALSE
    /\ sess = [s \in Conns |-> ConnConnect(NoSess, GoodConnect)]
    /\ net = [s \in Conns |-> NoNet]
    /\ faults = MaxFaults
    /\ logsLeft = 0
    /\ serverTypes = { ConnectionData }
    /\ calls = 0
    /\ crashed = FALSE
    /\ pc = [p \in Callers |-> "idle"]
    /\ acqCh = [p \in Callers |-> "chan"]
    /\ conn = [p \in Callers |-> NoConn]
    /\ req = [p \in Callers |-> 0]
    /\ result = [p \in Callers |-> NoResult]
    /\ logs = [p \in Callers |-> <<>>]
    /\ rcvd = [p \in Callers |-> <<>>]
    /\ stat = [p \in Callers |-> NoStat]
    /\ closedCnt = [s \in Conns |-> 0]
    /\ created = Conns
    /\ unread = [s \in Conns |-> {}]

\* What a caller does once it is in Call and has its Conn.
CallerStep(p) == DoSend(p) \/ DoRecv(p) \/ DoRecvRetry(p) \/ Release(p) \/ Return(p)

\* Fair scheduling: a goroutine that can run does run, the server answers
\* the requests it has, and a receiver that is ready again and again gets
\* its value (the runtime serves the receivers of a channel in turn).
FairSpec ==
    /\ InitFair
    /\ [][NextCall]_vars
    /\ \A p \in Callers : WF_vars(CallerStep(p)) /\ SF_vars(Acquire(p))
    /\ \A s \in Conns : WF_vars(ServerReply(s))

(***************************************************************************)
(* Properties.                                                             *)
(***************************************************************************)
Last(q) == q[Len(q)]

\* How often Conn s is in the pool, and the callers that hold it.
PoolCount(s) == Cardinality({ k \in 1..Len(buf) : buf[k] = s })
Holders(s) == { p \in Callers : conn[p] = s }
HeldConns == { s \in Conns : Holders(s) # {} }

\* C1: every Conn of a Client is in exactly one place: once in the pool,
\* or held by exactly one caller, or taken out for good by Close.  While
\* nobody has called Close, the Conns in the pool and the Conns held by
\* callers add up to the capacity, so at most that many are held.
C1_PoolExclusivity ==
    ClientExists =>
        /\ \A s \in Conns : PoolCount(s) + Cardinality(Holders(s)) + closedCnt[s] = 1
        /\ mainPc = "ready" =>
              /\ Len(buf) + Cardinality(HeldConns) = Capacity
              /\ Cardinality(HeldConns) <= Capacity

\* All Conns are held by callers, each by one, and one more caller waits.
C1_Witness ==
    /\ mainPc = "ready"
    /\ buf = <<>>
    /\ Cardinality(HeldConns) = Capacity
    /\ \E p \in Callers : pc[p] = "acquire"

\* A Call is over: with the error of Send or of Receive, with the error the
\* server replied, or with a reply.
ExitKinds == {"senderr", "recverr", "reqfailed", "reply"}

\* C2: a Call that holds a Conn and has its result can always put the Conn
\* back (the channel is open and has room), a Call that has returned, with
\* whatever result, has put its Conn back exactly once, and when no Call is
\* under way the pool holds all its Conns again.
C2_GuaranteedRelease ==
    /\ \A p \in Callers :
          /\ (pc[p] = "defer" /\ conn[p] \in Conns) =>
                /\ result[p].kind \in ExitKinds
                /\ connsField = "chan" /\ ~chClosed /\ Len(buf) < Capacity
          /\ pc[p] = "returned" =>
                /\ result[p].kind \in ExitKinds
                /\ stat[p].released = 1
                /\ conn[p] = NoConn
          /\ pc[p] \in {"blocked", "panicked"} => conn[p] \notin Conns
    /\ (\A p \in Callers : pc[p] \in {"idle", "returned", "off"}) => Len(buf) = Capacity

\* A Call has returned the error of Receive, and the pool is full again.
C2_Witness ==
    /\ \E p \in Callers : pc[p] = "returned" /\ result[p].kind = "recverr"
    /\ calls > 1
    /\ Len(buf) = Capacity

\* The LOG messages among the first n of the replies a Call received.
LogsBefore(rs, n) == SelectSeq(SubSeq(rs, 1, n), LAMBDA m : m.Type = ConnectionLog)
\* The position of the first reply that is neither LOG nor ERROR (0: none).
FirstResult(rs) ==
    LET ks == { k \in 1..Len(rs) : rs[k].Type \notin {ConnectionLog, ConnectionError} }
    IN  IF ks = {} THEN 0 ELSE CHOOSE k \in ks : \A j \in ks : k <= j

\* The result of a Call is the first reply that is neither LOG nor ERROR.
ReturnsFirstResult(p) ==
    /\ FirstResult(rcvd[p]) = Len(rcvd[p])
    /\ result[p].msg = Last(rcvd[p])
    /\ \A k \in 1..(Len(rcvd[p]) - 1) : rcvd[p][k].Type = ConnectionLog

\* C3 as stated: a Call that returns a reply returns the first reply that
\* is neither LOG nor ERROR, and has written to the log the body from
\* offset 4 of every LOG message before it, once each and in their order.
C3_AsStated ==
    \A p \in Callers :
        (pc[p] \in {"defer", "returned"} /\ result[p].kind = "reply") =>
            /\ ReturnsFirstResult(p)
            /\ LET lg == LogsBefore(rcvd[p], Len(rcvd[p]))
               IN  logs[p] = [k \in 1..Len(lg) |-> RawFrom4(lg[k].Raw)]

\* C3, amended: as above, for the LOG messages whose body is longer than 4
\* bytes; a LOG message with a body of 4 bytes or fewer is read and dropped.
C3_CallReplyLoop ==
    \A p \in Callers :
        (pc[p] \in {"defer", "returned"} /\ result[p].kind = "reply") =>
            /\ ReturnsFirstResult(p)
            /\ LET lg == SelectSeq(LogsBefore(rcvd[p], Len(rcvd[p])),
                                   LAMBDA m : Len(m.Raw) > 4)
               IN  logs[p] = [k \in 1..Len(lg) |-> RawFrom4(lg[k].Raw)]

\* The replies were LOG, LOG, DATA: the Call returns the DATA message and
\* has written the two log lines in their order.
C3_Witness ==
    \E p \in Callers :
        /\ pc[p] = "returned"
        /\ result[p].kind = "reply"
        /\ result[p].msg.Type = ConnectionData
        /\ Len(rcvd[p]) = 3
        /\ logs[p] = << <<65>>, <<66>> >>

\* The terminal replies waiting to be read on the transport of Conn s.
TerminalsInFlight(s) == SelectSeq(net[s].inq, LAMBDA m : m.Type # ConnectionLog)

\* A Call that has a reply of the server, as its result or as its error,
\* has the reply to its own request.
OwnReply ==
    \A p \in Callers :
        (pc[p] \in {"defer", "returned"} /\ result[p].kind \in {"reply", "reqfailed"}) =>
            result[p].msg.Raw = Request(req[p]).Raw

\* C4 as stated: every Call gets the reply to its own request, and no
\* request is sent on a Conn before the terminal reply to the request sent
\* on it before has been read from it.
C4_AsStated ==
    /\ OwnReply
    /\ \A s \in Conns : Cardinality(unread[s]) <= 1

\* C4, amended: every Call gets the reply to its own request, and on the
\* transport of a Conn at most one request is unanswered or has its
\* terminal reply unread; a request whose Call ended with the error of
\* Receive is given up with the transport it was sent on.
C4_RequestResponsePairing ==
    /\ OwnReply
    /\ \A s \in Conns :
          /\ Len(net[s].outq) + Len(TerminalsInFlight(s)) <= 1
          /\ \A k \in 1..Len(net[s].outq) : net[s].outq[k].Raw[1] \in unread[s]
          /\ \A k \in 1..Len(net[s].inq) :
                \E p \in Holders(s) : net[s].inq[k].Raw \in LogBodies \cup {<<req[p]>>}

\* Two callers have each the reply to their own request at the same time.
C4_Witness ==
    \E p, q \in Callers :
        /\ p # q
        /\ pc[p] = "defer" /\ result[p].kind = "reply"
        /\ pc[q] = "defer" /\ result[q].kind = "reply"
        /\ conn[p] # conn[q]

\* C5: once a Call has read an ERROR reply it reads no more: the ERROR is
\* the last reply it received and LOG messages came before it; the Call
\* fails with the message of the server, returns no message, has sent its
\* request once, and has put back its Conn when it has returned.
C5_ErrorShortCircuit ==
    \A p \in Callers :
        (\E k \in 1..Len(rcvd[p]) : rcvd[p][k].Type = ConnectionError) =>
            /\ pc[p] \in {"defer", "returned"}
            /\ Last(rcvd[p]).Type = ConnectionError
            /\ \A k \in 1..(Len(rcvd[p]) - 1) : rcvd[p][k].Type = ConnectionLog
            /\ result[p] = [kind |-> "reqfailed", msg |-> Last(rcvd[p])]
            /\ result[p].msg.Raw = Request(req[p]).Raw
            /\ stat[p].sends = 1
            /\ pc[p] = "returned" => (stat[p].released = 1 /\ conn[p] = NoConn)

\* A Call has returned the error the server replied after a LOG message.
C5_Witness ==
    \E p \in Callers :
        /\ pc[p] = "returned"
        /\ result[p].kind = "reqfailed"
        /\ Len(rcvd[p]) = 2

\* C6: Close closes the channel and returns only when it has taken every
\* Conn out of the pool: no caller holds a Conn then, the pool is empty,
\* every Conn was closed exactly once and is Disconnected without a
\* transport.  While Close waits and no caller holds a Conn, the pool has
\* a Conn for it.  No Conn is closed twice.
C6_CloseDrains ==
    /\ (chClosed \/ mainPc = "closed") =>
          /\ buf = <<>>
          /\ HeldConns = {}
          /\ \A s \in Conns : closedCnt[s] = 1 /\ sess[s].state = "Disconnected" /\ sess[s].tr = 0
    /\ (mainPc = "closing" /\ ~chClosed /\ idx < Capacity /\ HeldConns = {}) => buf # <<>>
    /\ \A s \in Conns : closedCnt[s] <= 1

\* Close has returned after a Call that ran beside it.
C6_Witness ==
    /\ mainPc = "closed"
    /\ \E p \in Callers : pc[p] = "returned"

\* C7: a Call issued after Close has returned does not block: it is never
\* left receiving from the nil channel, nor sending to it, nor does it
\* panic.
C7_UseAfterCloseFailsFast ==
    \A p \in Callers :
        stat[p].afterClose =>
            /\ ~(pc[p] = "acquire" /\ acqCh[p] = "nil")
            /\ pc[p] \notin {"blocked", "panicked"}

\* C9: a Client that Connect has returned has all its Conns, and before it
\* is used they are all in the pool and Connected; when Connect returned an
\* error there is no Client, no Call is ever issued, and the failed dial
\* was the last.
C9_ConnectAllOrNothing ==
    /\ ClientExists => created = Conns
    /\ (mainPc = "ready" /\ calls = 0) =>
          /\ Len(buf) = Capacity
          /\ \A s \in Conns : PoolCount(s) = 1 /\ IsConnected(sess[s]) /\ sess[s].tr # 0
    /\ mainPc = "failed" =>
          /\ calls = 0
          /\ idx < Capacity
          /\ created = 1..idx
          /\ \A p \in Callers : pc[p] = "idle"

\* Connect has failed at its second dial.
C9_Witness == mainPc = "failed" /\ idx = 1

\* C10: one Send runs connect() at most once and Encode at most twice.
\* When the first Encode failed, the transport it failed on is gone and
\* connect() ran once; when connect() failed the Conn is Disconnected, has
\* no transport, nothing was resent and Send returned the error; when the
\* resend failed Send returned the error as well.
SendDone(p) == pc[p] = "recv" \/ (pc[p] = "defer" /\ result[p].kind = "senderr")
C10_BoundedRetry ==
    \A p \in Callers :
        SendDone(p) =>
            LET c == sess[conn[p]]
            IN  /\ stat[p].connects <= 1
                /\ stat[p].encodes <= 2
                /\ stat[p].encodes <= 1 + stat[p].connects
                /\ (stat[p].wasConnected /\ stat[p].connects = 1) =>
                      (c.tr # stat[p].tr0 /\ stat[p].encodes >= 1)
                /\ (stat[p].connects = 1 /\ ~IsConnected(c)) =>
                      /\ c.tr = 0
                      /\ stat[p].sendErr
                      /\ stat[p].encodes = IF stat[p].wasConnected THEN 1 ELSE 0
                /\ stat[p].sendErr => stat[p].connects = 1
                /\ stat[p].sendErr <=> pc[p] = "defer"

\* The first Encode failed, connect() succeeded and the resend failed.
C10_Witness ==
    \E p \in Callers :
        /\ pc[p] = "defer"
        /\ result[p].kind = "senderr"
        /\ stat[p].connects = 1
        /\ stat[p].encodes = 2


\* A Call waits in Receive for a reply on a transport that carries none.
Hung == \E q \in Callers : pc[q] = "recv2" /\ ~CanDecode(net[conn[q]]) /\ ~DecodeFails(net[conn[q]])

\* C8: a caller that finds the pool empty waits: its receive cannot take
\* place, and no caller is past its receive without a Conn.  A caller that
\* waits while the pool holds a Conn can receive it.  Under fair
\* scheduling a caller that waits comes to hold a Conn, unless a Call
\* under way never ends.
C8_BlockingAcquire ==
    /\ [](\A p \in Callers :
            /\ (pc[p] = "acquire" /\ buf = <<>>) => ~ENABLED Acquire(p)
            /\ (pc[p] = "acquire" /\ buf # <<>>) => ENABLED Acquire(p)
            /\ pc[p] \in {"send", "recv", "recv2", "defer"} => conn[p] \in Conns)
    /\ \A p \in Callers : (pc[p] = "acquire") ~> (conn[p] \in Conns \/ Hung)

\* A caller that found the pool empty holds a Conn.
C8_Witness ==
    \E p \in Callers : stat[p].waited /\ pc[p] = "send" /\ conn[p] \in Conns

\* A Send found the Conn Connected, its first Encode failed, and it ran
\* connect(): the connect() succeeded when the message was encoded again.
FirstEncodeFailed(p) == SendDone(p) /\ stat[p].wasConnected /\ stat[p].connects = 1
Reconnected(p) == stat[p].encodes = 2

\* A Conn holds a transport if and only if it is Connected.
TransportIffConnected == \A s \in Conns : IsConnected(sess[s]) <=> sess[s].tr # 0

NoClient ==
    /\ mainPc = "none"
    /\ idx = 0
    /\ connsField = "nil"
    /\ buf = <<>>
    /\ chClosed = FALSE
    /\ sess = [s \in Conns |-> NoSess]
    /\ net = [s \in Conns |-> NoNet]
    /\ faults = 0
    /\ logsLeft = 0
    /\ serverTypes = {}
    /\ calls = 0
    /\ crashed = FALSE
    /\ pc = [p \in Callers |-> "off"]
    /\ acqCh = [p \in Callers |-> "nil"]
    /\ conn = [p \in Callers |-> NoConn]
    /\ req = [p \in Callers |-> 0]
    /\ result = [p \in Callers |-> NoResult]
    /\ logs = [p \in Callers |-> <<>>]
    /\ rcvd = [p \in Callers |-> <<>>]
    /\ stat = [p \in Callers |-> NoStat]
    /\ closedCnt = [s \in Conns |-> 0]
    /\ created = {}
    /\ unread = [s \in Conns |-> {}]

\* The widths the type int has in a build of the package.
IntWidths == { 32, 64 }

(***************************************************************************)
(* proto: the wire format.  A message on the wire is a header of 8 bytes,  *)
(* the type and the length of the body as big-endian uint32, and the body. *)
(* A uint32 is held as its two 16-bit halves, most significant first: the  *)
(* integers of the model checker end at 2^31 - 1.                          *)
(***************************************************************************)
\* Status(n) and uint32(n), for an n below 2^31.
Status(n) == U32(n \div 65536, n % 65536)

\* A PutUint32 that stores the least significant byte first.
PutUint32LittleEndian(v) == << v.lo % 256, v.lo \div 256, v.hi % 256, v.hi \div 256 >>

\* nbo.PutUint32 and nbo.Uint32: network byte order.
PutUint32(v) == << v.hi \div 256, v.hi % 256, v.lo \div 256, v.lo % 256 >>
Uint32(b) == U32(b[1] * 256 + b[2], b[3] * 256 + b[4])

\* The number of messages encoded to one stream.
MaxFrames == 2
\* The length of the bodies of the messages encoded, one longer body apart.
MaxBodyLen == 1

WireTypes == { Status(ConnectionData), U32(65535, 65535) }
BodyBytes == { 0, 255 }
WireBodies == SeqsUpTo(BodyBytes, MaxBodyLen) \cup { << 1, 2, 3 >> }
WireMessages == { Message(ty, b) : ty \in WireTypes, b \in WireBodies }
\* Lengths of 2^31 and of 2^32 - 1 bytes, as a peer may declare them.
LargeLengths == { U32(32768, 0), U32(65535, 65535) }

\* io.WriteString to a writer that takes room more bytes and then fails.
WriteString(s, room) ==
    IF room >= Len(s) THEN [n |-> Len(s), err |-> FALSE] ELSE [n |-> room, err |-> TRUE]

\* The header Encode puts before the body of m.
Header(m) == PutUint32(m.Type) \o PutUint32(Status(Len(m.Raw)))

\* Encode (Write in the later revision) of m to a writer that takes room
\* more bytes: the calls of WriteString it makes, the bytes the writer
\* took, and whether it returns an error.
Encode(m, room) ==
    LET w1 == WriteString(Header(m), room)
        w2 == WriteString(m.Raw, room - w1.n)
    IN  IF w1.err
        THEN [writes |-> << Header(m) >>, out |-> SubSeq(Header(m), 1, w1.n), err |-> TRUE]
        ELSE [writes |-> << Header(m), m.Raw >>,
              out |-> Header(m) \o SubSeq(m.Raw, 1, w2.n), err |-> w2.err]

\* A ReadFull that hands out the bytes and leaves them in the stream.
ReadFullPeek(s, n) ==
    IF Len(s) >= n
    THEN [data |-> SubSeq(s, 1, n), rest |-> s, err |-> "nil"]
    ELSE [data |-> s, rest |-> <<>>, err |-> IF s = <<>> THEN "EOF" ELSE "ErrUnexpectedEOF"]

\* io.ReadFull of n bytes from a stream that holds s and, when s is
\* shorter, has ended: the bytes read, the bytes left, and the error.
ReadFull(s, n) ==
    IF Len(s) >= n
    THEN [data |-> SubSeq(s, 1, n), rest |-> SubSeq(s, n + 1, Len(s)), err |-> "nil"]
    ELSE [data |-> s, rest |-> <<>>, err |-> IF s = <<>> THEN "EOF" ELSE "ErrUnexpectedEOF"]

\* Whether a stream that holds s lacks bytes of a body of l bytes.
BodyShort(s, l) == l.hi > 0 \/ Len(s) < l.lo

\* make([]byte, l) for a uint32 l panics when l is not an int of the build.
MakePanics(l, bits) == bits = 32 /\ l.hi >= 32768

\* What Decode returns without a message.
DecodeFailed(e, rest) == [msg |-> NilMessage, err |-> e, panic |-> FALSE, rest |-> rest]

\* Decode (Read in the later revision) from a stream that holds s and has
\* ended where it lacks bytes: the message and the error it returns,
\* whether it panics, and the bytes left in the stream.
Decode(s, bits) ==
    LET h == ReadFull(s, 8)
    IN  IF h.err # "nil"
        THEN DecodeFailed(h.err, h.rest)
        ELSE LET typ == Uint32(SubSeq(h.data, 1, 4))
                 l == Uint32(SubSeq(h.data, 5, 8))
             IN  IF MakePanics(l, bits)
                 THEN [msg |-> NilMessage, err |-> "nil", panic |-> TRUE, rest |-> h.rest]
                 ELSE IF BodyShort(h.rest, l)
                 THEN DecodeFailed(ReadFull(h.rest, Len(h.rest) + 1).err, <<>>)
                 ELSE LET b == ReadFull(h.rest, l.lo)
                      IN  [msg |-> Message(typ, b.data), err |-> "nil", panic |-> FALSE,
                           rest |-> b.rest]

\* Decode does not wait for bytes: it has all the bytes it asks for, or
\* the stream has ended, or it panics once it has the header.
DecodeReady(s, ended, bits) ==
    IF Len(s) < 8
    THEN ended
    ELSE LET l == Uint32(SubSeq(s, 5, 8))
         IN  MakePanics(l, bits) \/ ~BodyShort(SubSeq(s, 9, Len(s)), l) \/ ended

\* The stream is of no use any more: Decode returned an error or panicked.
DecodeOver == decoded # <<>> /\ (decoded[Len(decoded)].err # "nil" \/ decoded[Len(decoded)].panic)

\* Encode is called with message m on a writer that takes room more bytes.
\* A writer that fails is closed: the stream ends with the bytes it took.
DoEncode(m, room) ==
    /\ ~wireEnded
    /\ Len(sent) < MaxFrames
    /\ LET r == Encode(m, room)
       IN  /\ wire' = wire \o r.out
           /\ sent' = Append(sent, [msg |-> m, writes |-> r.writes, out |-> r.out, err |-> r.err])
           /\ wireEnded' = r.err
    /\ UNCHANGED << query, args, intBits, decoded, reply, answer, dur, text, parsed >>
    /\ UNCHANGED << mainPc, idx, connsField, buf, chClosed, sess, net, faults, logsLeft,
                    serverTypes, calls, crashed, closedCnt, created, unread >>
    /\ UNCHANGED callVars

\* The peer starts a message with a body of l bytes, and the stream ends
\* after the header and the first bytes of the body, b.
PeerLargeFrame(l, b) ==
    /\ ~wireEnded
    /\ Len(sent) < MaxFrames
    /\ LET out == PutUint32(Status(ConnectionData)) \o PutUint32(l) \o b
       IN  /\ wire' = wire \o out
           /\ sent' = Append(sent, [msg |-> NilMessage, writes |-> <<>>, out |-> out, err |-> TRUE])
    /\ wireEnded' = TRUE
    /\ UNCHANGED << query, args, intBits, decoded, reply, answer, dur, text, parsed >>
    /\ UNCHANGED << mainPc, idx, connsField, buf, chClosed, sess, net, faults, logsLeft,
                    serverTypes, calls, crashed, closedCnt, created, unread >>
    /\ UNCHANGED callVars

\* Decode is called on the stream.
DoDecode ==
    /\ ~DecodeOver
    /\ DecodeReady(wire, wireEnded, intBits)
    /\ LET r == Decode(wire, intBits)
       IN  /\ wire' = r.rest
           /\ decoded' = Append(decoded, [msg |-> r.msg, err |-> r.err, panic |-> r.panic,
                                          n |-> Len(wire) - Len(r.rest)])
    /\ UNCHANGED << query, args, intBits, wireEnded, sent, reply, answer, dur, text, parsed >>
    /\ UNCHANGED << mainPc, idx, connsField, buf, chClosed, sess, net, faults, logsLeft,
                    serverTypes, calls, crashed, closedCnt, created, unread >>
    /\ UNCHANGED callVars

InitProto ==
    /\ NoClient
    /\ QueryIdle
    /\ intBits \in IntWidths
    /\ wire = <<>>
    /\ wireEnded = FALSE
    /\ sent = <<>>
    /\ decoded = <<>>
    /\ reply = [err |-> TRUE, msg |-> NilMessage]
    /\ answer = [op |-> "none"]
    /\ dur = [s |-> 0, ns |-> 0]
    /\ text = <<>>
    /\ parsed = [op |-> "none"]

NextProto ==
    \/ \E m \in WireMessages : \E room \in 0..(8 + Len(m.Raw)) : DoEncode(m, room)
    \/ \E l \in LargeLengths : \E b \in WireBodies : PeerLargeFrame(l, b)
    \/ DoDecode

ProtoSpec == InitProto /\ [][NextProto]_vars

\* The k-th message of the stream was encoded whole.
Whole(k) == k <= Len(sent) /\ ~sent[k].err

\* C12: the k-th Decode on a stream returns the k-th message that was
\* encoded to it, of any type and with any body, and takes 8 bytes and the
\* bytes of the body from the stream; and a Decode does not wait while a
\* message that was encoded whole is unread.
C12_FrameRoundTrip ==
    /\ \A k \in 1..Len(decoded) :
          Whole(k) =>
              /\ decoded[k].err = "nil" /\ ~decoded[k].panic
              /\ decoded[k].msg = sent[k].msg
              /\ decoded[k].n = 8 + Len(sent[k].msg.Raw)
    /\ (~DecodeOver /\ Whole(Len(decoded) + 1)) =>
          /\ DecodeReady(wire, wireEnded, intBits)
          /\ Decode(wire, intBits).msg = sent[Len(decoded) + 1].msg

\* Two different messages were encoded and decoded, one of them of type
\* 2^32 - 1 and one without a body.
C12_Witness ==
    /\ Len(decoded) = 2
    /\ Whole(1) /\ Whole(2)
    /\ decoded[1].msg # decoded[2].msg
    /\ decoded[1].msg.Type = U32(65535, 65535)
    /\ decoded[2].msg.Raw = <<>>
    /\ decoded[1].msg.Raw = << 1, 2, 3 >>

\* The bytes b are the big-endian form of the number hi * 2^16 + lo.
BigEndian(b, hi, lo) ==
    /\ Len(b) = 4
    /\ \A k \in 1..4 : b[k] \in 0..255
    /\ b[1] * 256 + b[2] = hi
    /\ b[3] * 256 + b[4] = lo

\* C13: an Encode that succeeds puts 8 + L bytes on the stream for a body of
\* L bytes: the type, big-endian, the length L, big-endian, and the body as
\* it is.  Encode writes the header and then the body: when it fails, the
\* stream has a part of these bytes from their start, and no byte of the
\* body unless it has the header.
C13_WireLayout ==
    \A k \in 1..Len(sent) :
        LET e == sent[k]
            L == Len(e.msg.Raw)
        IN  e.writes # <<>> =>
              /\ BigEndian(SubSeq(e.writes[1], 1, 4), e.msg.Type.hi, e.msg.Type.lo)
              /\ BigEndian(SubSeq(e.writes[1], 5, 8), L \div 65536, L % 65536)
              /\ Len(e.writes[1]) = 8
              /\ Len(e.writes) = 2 => e.writes[2] = e.msg.Raw
              /\ ~e.err =>
                    /\ Len(e.writes) = 2
                    /\ Len(e.out) = 8 + L
                    /\ SubSeq(e.out, 1, 8) = e.writes[1]
                    /\ SubSeq(e.out, 9, 8 + L) = e.msg.Raw
              /\ e.err =>
                    /\ Len(e.out) < 8 + L
                    /\ e.out = SubSeq(e.writes[1] \o e.msg.Raw, 1, Len(e.out))
                    /\ Len(e.writes) = 1 <=> Len(e.out) < 8

\* A message of type DATA with a body of three bytes is on the stream.
C13_Witness ==
    \E k \in 1..Len(sent) :
        /\ sent[k].msg = Message(Status(ConnectionData), << 1, 2, 3 >>)
        /\ sent[k].out = << 0, 0, 0, 100, 0, 0, 0, 3, 1, 2, 3 >>
        /\ ~sent[k].err

\* The k-th Decode was on a stream that ended before the end of the k-th
\* message: inside its header, inside its body, or before its first byte.
Truncated(k) == k <= Len(decoded) /\ ~Whole(k) /\ wireEnded

\* C14: Decode on a stream that ends inside a message returns an error and
\* no message.
C14_DecodeTruncated ==
    \A k \in 1..Len(decoded) :
        Truncated(k) =>
            /\ ~decoded[k].panic
            /\ decoded[k].err \in {"EOF", "ErrUnexpectedEOF"}
            /\ decoded[k].msg = NilMessage

\* The same where int has 64 bits.
DecodeTruncated64 == intBits = 64 => C14_DecodeTruncated

(***************************************************************************)
(* proto and client: what is made of the message a Call returns.  The body *)
(* of a message is as Decode made it: its capacity is its length, so a     *)
(* slice of it beyond its length is out of range.                          *)
(***************************************************************************)
ConnectionFetch == 4
ConnectionList == 5
ConnectionLookup == 6
ConnectionTimeseries == 7

\* The values of the type DataType.
HostList == 0
Host == 1
Timeseries == 2

\* The number of bytes that follow the first four bytes of a body.
MaxPayloadLen == 2

\* The first four bytes of the bodies: the status of a DATA message, or a
\* version number.
BodyWords ==
    { PutUint32(Status(n)) : n \in { 0, ConnectionFetch, ConnectionList, ConnectionLookup,
                                     ConnectionTimeseries, 8, ConnectionData, 402, 10203 } }
    \cup { PutUint32(U32(32767, 65535)), PutUint32(U32(32768, 0)), PutUint32(U32(65535, 65535)) }
\* The bytes [, ], { and }.
PayloadBytes == { 91, 93, 123, 125 }
\* The bodies: four bytes and a payload, and every body cut short of that.
ReplyBodies ==
    UNION { { SubSeq(w \o tail, 1, n) : n \in 0..Len(w \o tail) } :
                w \in BodyWords, tail \in SeqsUpTo(PayloadBytes, MaxPayloadLen) }
ReplyTypes == { Status(ConnectionOK), Status(ConnectionError), Status(ConnectionLog),
                Status(ConnectionData) }
\* What Call returns: an error, or a message that is neither ERROR nor LOG.
IsCallResult(r) == r.err \/ r.msg.Type \notin { Status(ConnectionError), Status(ConnectionLog) }

\* Message.DataType: the DataType and the error it returns, or it panics:
\* m.Raw[:4] is out of range for a body of fewer than 4 bytes.
DataType(m) ==
    IF m.Type # Status(ConnectionData)
    THEN [t |-> 0, err |-> "message is not of type DATA", panic |-> FALSE]
    ELSE IF Len(m.Raw) < 4
    THEN [t |-> 0, err |-> "nil", panic |-> TRUE]
    ELSE LET typ == Uint32(SubSeq(m.Raw, 1, 4))
         IN  IF typ \in { Status(ConnectionList), Status(ConnectionLookup) }
             THEN [t |-> HostList, err |-> "nil", panic |-> FALSE]
             ELSE IF typ = Status(ConnectionFetch)
             THEN [t |-> Host, err |-> "nil", panic |-> FALSE]
             ELSE IF typ = Status(ConnectionTimeseries)
             THEN [t |-> Timeseries, err |-> "nil", panic |-> FALSE]
             ELSE [t |-> 0, err |-> "unknown DATA type", panic |-> FALSE]

\* The values Unmarshal stores to: a variable of one of the types of
\* package sysdb, with the document it was set from (none: its zero value).
Targets == { "[]sysdb.Host", "sysdb.Host", "sysdb.Timeseries" }
NoDoc == << 0 >>
Zero(kind) == [kind |-> kind, doc |-> NoDoc]
\* Nothing was handed to json.Unmarshal.
NotParsed == << 0 - 1 >>

\* json.Unmarshal(data, v): an array sets a slice and an object sets a
\* struct; anything else is an error and leaves v as it is.
JsonUnmarshal(data, v) ==
    IF \/ data = << 91, 93 >> /\ v.kind = "[]sysdb.Host"
       \/ data = << 123, 125 >> /\ v.kind \in { "sysdb.Host", "sysdb.Timeseries" }
    THEN [err |-> "nil", v |-> [v EXCEPT !.doc = data], handed |-> data]
    ELSE [err |-> "json", v |-> v, handed |-> data]

\* An Unmarshal that hands the whole body to json.Unmarshal.
UnmarshalWholeBody(m, v) ==
    IF m.Type # Status(ConnectionData)
    THEN [err |-> "unmarshaling message not supported", v |-> v, handed |-> NotParsed]
    ELSE IF Len(m.Raw) = 0
    THEN [err |-> "nil", v |-> v, handed |-> NotParsed]
    ELSE IF Len(m.Raw) < 4
    THEN [err |-> "DATA message body too short", v |-> v, handed |-> NotParsed]
    ELSE JsonUnmarshal(m.Raw, v)

\* Unmarshal(m, v): the error it returns, v afterwards, and the bytes it
\* handed to json.Unmarshal.
Unmarshal(m, v) ==
    IF m.Type # Status(ConnectionData)
    THEN [err |-> "unmarshaling message not supported", v |-> v, handed |-> NotParsed]
    ELSE IF Len(m.Raw) = 0
    THEN [err |-> "nil", v |-> v, handed |-> NotParsed]
    ELSE IF Len(m.Raw) < 4
    THEN [err |-> "DATA message body too short", v |-> v, handed |-> NotParsed]
    ELSE JsonUnmarshal(RawFrom4(m.Raw), v)

\* What Query returns without an object.
QueryFailed(e) == [obj |-> Zero("nil"), err |-> e, panic |-> FALSE]

\* The variable Query unmarshals a reply of DataType dt into.
QueryTarget(dt) ==
    IF dt = HostList THEN "[]sysdb.Host"
    ELSE IF dt = Host THEN "sysdb.Host"
    ELSE "sysdb.Timeseries"

\* Client.Query, from the return of its Call on: the object and the error
\* it returns, or it panics.
Query(r) ==
    IF r.err
    THEN QueryFailed("call")
    ELSE IF r.msg.Type # Status(ConnectionData)
    THEN QueryFailed("unexpected result type")
    ELSE LET dt == DataType(r.msg)
         IN  IF dt.panic
             THEN [obj |-> Zero("nil"), err |-> "nil", panic |-> TRUE]
             ELSE IF dt.err # "nil"
             THEN QueryFailed("failed to unmarshal response")
             ELSE IF dt.t \notin { HostList, Host, Timeseries }
             THEN QueryFailed("unsupported data type")
             ELSE LET u == Unmarshal(r.msg, Zero(QueryTarget(dt.t)))
                  IN  IF u.err # "nil"
                      THEN QueryFailed("failed to unmarshal response")
                      ELSE [obj |-> u.v, err |-> "nil", panic |-> FALSE]

\* An int beyond the integers of the model checker: the number
\* q * 10000 + r, with r in 0..9999.
Wide(q, r) == [q |-> q, r |-> r]

\* The uint32 u as a number.
NatOfUint32(u) ==
    Wide((u.hi \div 10000) * 65536 + ((u.hi % 10000) * 65536 + u.lo) \div 10000,
         ((u.hi % 10000) * 65536 + u.lo) % 10000)

\* int(u) for a uint32 u: where int has 32 bits, a u of 2^31 or more
\* becomes u - 2^32.
IntOfUint32(u, bits) ==
    IF bits = 32 /\ u.hi >= 32768
    THEN LET x == (u.hi - 65536) * 65536 + u.lo
         IN  Wide(x \div 10000, x % 10000)
    ELSE NatOfUint32(u)

\* x / 10000 and x / 100 as Go divides: towards zero.
Quo10000(x) == IF x.q < 0 /\ x.r # 0 THEN x.q + 1 ELSE x.q
Quo100(x) ==
    LET floor == x.q * 100 + x.r \div 100
    IN  IF x.q < 0 /\ x.r % 100 # 0 THEN floor + 1 ELSE floor
\* x - 10000 * k
Minus10000Times(x, k) == (x.q - k) * 10000 + x.r

\* What ServerVersion returns with an error.
VersionFailed(e) == [major |-> 0, minor |-> 0, patch |-> 0, extra |-> <<>>, err |-> e]

\* Client.ServerVersion, from the return of its Call on.
ServerVersion(r, bits) ==
    IF r.err
    THEN VersionFailed("call")
    ELSE IF r.msg.Type # Status(ConnectionOK)
    THEN VersionFailed("SERVER_VERSION command failed")
    ELSE IF Len(r.msg.Raw) < 4
    THEN VersionFailed("SERVER_VERSION reply is too short")
    ELSE LET version == IntOfUint32(Uint32(SubSeq(r.msg.Raw, 1, 4)), bits)
             major == Quo10000(version)
             minor == Quo100(version) - 100 * major
             patch == Minus10000Times(version, major) - 100 * minor
         IN  [major |-> major, minor |-> minor, patch |-> patch,
              extra |-> IF Len(r.msg.Raw) > 4 THEN RawFrom4(r.msg.Raw) ELSE <<>>,
              err |-> "nil"]

\* m.DataType() is called on the message.
DoDataType ==
    /\ ~reply.err
    /\ answer' = [op |-> "DataType", res |-> DataType(reply.msg)]
    /\ UNCHANGED << query, args, intBits, wire, wireEnded, sent, decoded, reply, dur, text, parsed >>
    /\ UNCHANGED << mainPc, idx, connsField, buf, chClosed, sess, net, faults, logsLeft,
                    serverTypes, calls, crashed, closedCnt, created, unread >>
    /\ UNCHANGED callVars

\* Unmarshal is called on the message and a variable of type kind.
DoUnmarshal(kind) ==
    /\ ~reply.err
    /\ answer' = [op |-> "Unmarshal", res |-> Unmarshal(reply.msg, Zero(kind))]
    /\ UNCHANGED << query, args, intBits, wire, wireEnded, sent, decoded, reply, dur, text, parsed >>
    /\ UNCHANGED << mainPc, idx, connsField, buf, chClosed, sess, net, faults, logsLeft,
                    serverTypes, calls, crashed, closedCnt, created, unread >>
    /\ UNCHANGED callVars

\* Query goes on after its Call.
DoQuery ==
    /\ IsCallResult(reply)
    /\ answer' = [op |-> "Query", res |-> Query(reply)]
    /\ UNCHANGED << query, args, intBits, wire, wireEnded, sent, decoded, reply, dur, text, parsed >>
    /\ UNCHANGED << mainPc, idx, connsField, buf, chClosed, sess, net, faults, logsLeft,
                    serverTypes, calls, crashed, closedCnt, created, unread >>
    /\ UNCHANGED callVars

\* ServerVersion goes on after its Call.
DoServerVersion ==
    /\ IsCallResult(reply)
    /\ answer' = [op |-> "ServerVersion", res |-> ServerVersion(reply, intBits)]
    /\ UNCHANGED << query, args, intBits, wire, wireEnded, sent, decoded, reply, dur, text, parsed >>
    /\ UNCHANGED << mainPc, idx, connsField, buf, chClosed, sess, net, faults, logsLeft,
                    serverTypes, calls, crashed, closedCnt, created, unread >>
    /\ UNCHANGED callVars

\* A message, of any type and with any of the bodies, or the error of Call.
InitPayload ==
    /\ NoClient
    /\ QueryIdle
    /\ intBits \in IntWidths
    /\ wire = <<>>
    /\ wireEnded = FALSE
    /\ sent = <<>>
    /\ decoded = <<>>
    /\ reply \in { [err |-> TRUE, msg |-> NilMessage] }
                    \cup { [err |-> FALSE, msg |-> Message(ty, b)] : ty \in ReplyTypes, b \in ReplyBodies }
    /\ answer = [op |-> "none"]
    /\ dur = [s |-> 0, ns |-> 0]
    /\ text = <<>>
    /\ parsed = [op |-> "none"]

NextPayload ==
    \/ DoDataType
    \/ \E kind \in Targets : DoUnmarshal(kind)
    \/ DoQuery
    \/ DoServerVersion

PayloadSpec == InitPayload /\ [][NextPayload]_vars

\* The first 4 bytes of body raw are the big-endian form of the status n.
StatusIs(raw, n) == BigEndian(SubSeq(raw, 1, 4), 0, n)

\* What DataType is to return for a DATA message with the body raw.
DataTypeOf(raw) ==
    IF StatusIs(raw, ConnectionList) \/ StatusIs(raw, ConnectionLookup) THEN << HostList >>
    ELSE IF StatusIs(raw, ConnectionFetch) THEN << Host >>
    ELSE IF StatusIs(raw, ConnectionTimeseries) THEN << Timeseries >>
    ELSE << >>

\* DataType was called on a DATA message with a body of fewer than 4 bytes.
ShortData(op) ==
    /\ answer.op = op
    /\ ~reply.err
    /\ reply.msg.Type = Status(ConnectionData)
    /\ Len(reply.msg.Raw) < 4

\* DataType on a DATA message with a body of 4 bytes or more: HostList for
\* LIST and LOOKUP, Host for FETCH, Timeseries for TIMESERIES and an error
\* for any other status; and an error for a message that is not DATA.
DataTypeOfFullBody ==
    (answer.op = "DataType" /\ ~ShortData("DataType")) =>
        /\ ~answer.res.panic
        /\ IF reply.msg.Type # Status(ConnectionData) \/ DataTypeOf(reply.msg.Raw) = << >>
           THEN answer.res.err # "nil"
           ELSE answer.res.err = "nil" /\ << answer.res.t >> = DataTypeOf(reply.msg.Raw)

\* C15: DataType on a DATA message returns HostList, Host or Timeseries as
\* the status in the first 4 bytes of the body says, and an error for any
\* other status; on a message that is not DATA it returns an error.
C15_PayloadClassification ==
    answer.op = "DataType" =>
        /\ ~answer.res.panic
        /\ DataTypeOfFullBody

\* C16: when the reply to Query is a DATA message with a body of fewer
\* than 4 bytes, Query returns an error and no object, and DataType on such
\* a message does not panic.
C16_ShortDataBody ==
    /\ ShortData("Query") =>
          /\ ~answer.res.panic
          /\ answer.res.err # "nil"
          /\ answer.res.obj = Zero("nil")
    /\ ShortData("DataType") => ~answer.res.panic

\* C17: Unmarshal returns an error for a message that is not DATA; for a
\* DATA message without a body it returns no error and leaves the variable
\* as it was; for a body of 1 to 3 bytes it returns the error that the body
\* is too short; and of a body of 4 bytes or more it hands the bytes from
\* offset 4 on, and nothing else, to the parser, whose result it returns.
C17_UnmarshalPreconditions ==
    answer.op = "Unmarshal" =>
        LET m == reply.msg
            r == answer.res
            n == Len(m.Raw)
        IN  /\ m.Type # Status(ConnectionData) =>
                  r.err # "nil" /\ r.handed = NotParsed /\ r.v.doc = NoDoc
            /\ (m.Type = Status(ConnectionData) /\ n = 0) =>
                  r.err = "nil" /\ r.handed = NotParsed /\ r.v.doc = NoDoc
            /\ (m.Type = Status(ConnectionData) /\ n \in 1..3) =>
                  r.err = "DATA message body too short" /\ r.handed = NotParsed /\ r.v.doc = NoDoc
            /\ (m.Type = Status(ConnectionData) /\ n >= 4) =>
                  /\ Len(r.handed) = n - 4
                  /\ \A k \in 1..(n - 4) : r.handed[k] = m.Raw[k + 4]
                  /\ r.err = "nil" <=> r.v.doc # NoDoc
                  /\ r.err = "nil" => r.v.doc = r.handed

\* A list of hosts was unmarshaled from a body of 6 bytes.
C17_Witness ==
    /\ answer.op = "Unmarshal"
    /\ reply.msg.Raw = PutUint32(Status(ConnectionList)) \o << 91, 93 >>
    /\ answer.res.err = "nil"
    /\ answer.res.v = [kind |-> "[]sysdb.Host", doc |-> << 91, 93 >>]

\* The version number in the first 4 bytes of the reply, as a number.
VersionOf(r) == NatOfUint32(Uint32(SubSeq(r.msg.Raw, 1, 4)))

\* ServerVersion had a reply of type OK with 4 bytes or more.
VersionReply == answer.op = "ServerVersion" /\ ~reply.err
                    /\ reply.msg.Type = Status(ConnectionOK) /\ Len(reply.msg.Raw) >= 4

\* C18: for a reply of type OK that carries the version v, ServerVersion
\* returns major = v div 10000, minor = (v div 100) mod 100 and
\* patch = v mod 100, so 0 <= minor < 100, 0 <= patch < 100 and
\* major * 10000 + minor * 100 + patch = v; for any other reply or a body of
\* fewer than 4 bytes it returns an error.
C18_ServerVersion ==
    answer.op = "ServerVersion" =>
        IF VersionReply
        THEN /\ answer.res.err = "nil"
             /\ answer.res.minor \in 0..99
             /\ answer.res.patch \in 0..99
             /\ Wide(answer.res.major, answer.res.minor * 100 + answer.res.patch) = VersionOf(reply)
        ELSE answer.res.err # "nil"

\* The same where int has 64 bits.
ServerVersion64 == intBits = 64 => C18_ServerVersion

\* ---------------------------------------------------------------------------
\* Duration: MarshalJSON and UnmarshalJSON.
\*
\* A Duration is a count of nanoseconds in an int64. It is held here as
\* [s, ns], the value s * NanosPerSecond + ns with ns in 0..NanosPerSecond-1
\* (for a negative value s is negative). Every interval of the format is a
\* whole number of seconds, and the intervals are held in seconds. A text is
\* a sequence of one-character strings.
\* ---------------------------------------------------------------------------

\* Second, in nanoseconds.
NanosPerSecond == 1000000000
\* The intervals, in seconds: Year is 3652425 * 24 * 60 * 60 * 100000 ns and
\* Month is 30436875 * 24 * 60 * 60 * 1000 ns.
Second == 1
Minute == 60
Hour == 3600
Day == 86400
Month == 2629746
Year == 31556952

\* The largest number of years in a Duration that is formatted.
MaxYears == 1

Duration(s, ns) == [s |-> s, ns |-> ns]

Quote == "\""

Digits == << "0", "1", "2", "3", "4", "5", "6", "7", "8", "9" >>

IsDigit(c) == \E i \in 1..10 : Digits[i] = c

DigitValue(c) == (CHOOSE i \in 1..10 : Digits[i] = c) - 1

RECURSIVE Pow10(_)
Pow10(k) == IF k = 0 THEN 1 ELSE 10 * Pow10(k - 1)

\* fmt.Sprintf("%d", n), for n >= 0.
RECURSIVE FormatNat(_)
FormatNat(n) ==
    IF n < 10 THEN << Digits[n + 1] >>
    ELSE FormatNat(n \div 10) \o << Digits[(n % 10) + 1] >>

\* fmt.Sprintf("%09d", n), for n >= 0.
RECURSIVE ZeroPad(_, _)
ZeroPad(s, width) == IF Len(s) >= width THEN s ELSE ZeroPad(<< "0" >> \o s, width)

\* The units of MarshalJSON, in its order.
Specs == << [interval |-> Year,   suffix |-> << "Y" >>],
            [interval |-> Month,  suffix |-> << "M" >>],
            [interval |-> Day,    suffix |-> << "D" >>],
            [interval |-> Hour,   suffix |-> << "h" >>],
            [interval |-> Minute, suffix |-> << "m" >>],
            [interval |-> Second, suffix |-> << >>] >>

\* The loop of MarshalJSON over the units, from unit i on: d is what is left
\* of the duration, s the text so far.
RECURSIVE MarshalUnits(_, _, _, _)
MarshalUnits(d, s, secs, i) ==
    IF i > Len(Specs) THEN [d |-> d, s |-> s, secs |-> secs]
    ELSE IF d.s >= Specs[i].interval
         THEN MarshalUnits(Duration(d.s % Specs[i].interval, d.ns),
                           s \o FormatNat(d.s \div Specs[i].interval) \o Specs[i].suffix,
                           secs \/ Specs[i].interval = Second,
                           i + 1)
         ELSE MarshalUnits(d, s, secs, i + 1)

\* A loop that strips nothing.
StripZerosNot(s) == s

\* The loop that strips the '0's at the end of s, never its first character.
RECURSIVE StripZeros(_)
StripZeros(s) ==
    IF Len(s) > 1 /\ s[Len(s)] = "0" THEN StripZeros(SubSeq(s, 1, Len(s) - 1)) ELSE s

\* Duration.MarshalJSON, for d >= 0; it returns no error.
MarshalJSON(d) ==
    IF d = Duration(0, 0) THEN << Quote, "0", "s", Quote >>
    ELSE LET u == MarshalUnits(d, << Quote >>, FALSE, 1)
             rest == u.d.s * NanosPerSecond + u.d.ns
             s == IF rest > 0
                  THEN StripZeros(u.s \o << "." >> \o ZeroPad(FormatNat(rest), 9))
                  ELSE u.s
             secs == u.secs \/ rest > 0
         IN  s \o (IF secs THEN << "s" >> ELSE << >>) \o << Quote >>

\* The int dec of UnmarshalJSON, exact: the value hi * NanosPerSecond + lo.
Dec(hi, lo) == [hi |-> hi, lo |-> lo]

\* dec*10 + int(c - '0')
Times10Plus(dec, n) ==
    Dec(dec.hi * 10 + (dec.lo \div 100000000), (dec.lo % 100000000) * 10 + n)

\* dec after the digits data[from + 1 .. to].
RECURSIVE ConsumeDigits(_, _, _, _)
ConsumeDigits(data, from, to, dec) ==
    IF from >= to THEN dec
    ELSE ConsumeDigits(data, from + 1, to, Times10Plus(dec, DigitValue(data[from + 1])))

\* dec *= m, where m is 10 to the k.
RECURSIVE TimesPow10(_, _)
TimesPow10(dec, k) == IF k = 0 THEN dec ELSE TimesPow10(Times10Plus(dec, 0), k - 1)

\* The index after the run of digits of data that starts at index n (from 0).
RECURSIVE DigitRun(_, _)
DigitRun(data, n) ==
    IF n < Len(data) /\ IsDigit(data[n + 1]) THEN DigitRun(data, n + 1) ELSE n

\* The index after the unit that starts at index u.
RECURSIVE UnitRun(_, _)
UnitRun(data, u) ==
    IF u < Len(data) /\ data[u + 1] # "." /\ ~IsDigit(data[u + 1])
    THEN UnitRun(data, u + 1) ELSE u

\* The map m of UnmarshalJSON; 0 for a unit it does not have.
UnitInterval(unit) ==
    CASE unit = << "Y" >> -> Year
      [] unit = << "M" >> -> Month
      [] unit = << "D" >> -> Day
      [] unit = << "h" >> -> Hour
      [] unit = << "m" >> -> Minute
      [] unit = << "s" >> -> Second
      [] OTHER -> 0

\* The value of the int dec as the build holds it, as a Duration of that many
\* nanoseconds. An int of 64 bits holds the values that arise here exactly; an
\* int of 32 bits keeps the low 32 bits, as a signed number
\* (NanosPerSecond = 15258 * 65536 + 51712).
DurationOfDec(dec, bits) ==
    IF bits = 64 THEN Duration(dec.hi, dec.lo)
    ELSE LET low  == dec.hi * 51712 + (dec.lo % 65536)
             high == (dec.hi * 15258 + (dec.lo \div 65536) + (low \div 65536)) % 65536
             x    == (IF high >= 32768 THEN high - 65536 ELSE high) * 65536 + (low % 65536)
         IN  Duration(x \div NanosPerSecond, x % NanosPerSecond)

\* a + b
DurationPlus(a, b) ==
    Duration(a.s + b.s + ((a.ns + b.ns) \div NanosPerSecond), (a.ns + b.ns) % NanosPerSecond)

\* Duration(dec) * d for an interval d of k seconds (dec is a whole number
\* here, of seconds, minutes, ...).
DurationTimes(n, k) == Duration((n.s * NanosPerSecond + n.ns) * k, 0)

UnmarshalFailed(e) == [err |-> e, panic |-> FALSE, d |-> Duration(0, 0)]

\* The loop of UnmarshalJSON: data is what is left of the text, res the sum.
RECURSIVE UnmarshalUnits(_, _, _)
UnmarshalUnits(data, res, bits) ==
    IF Len(data) = 0 THEN [err |-> "nil", panic |-> FALSE, d |-> res]
    ELSE LET n0    == DigitRun(data, 0)
             dec0  == ConsumeDigits(data, 0, n0, Dec(0, 0))
             frac  == n0 < Len(data) /\ data[n0 + 1] = "."
             n1    == IF frac THEN DigitRun(data, n0 + 1) ELSE n0
             used  == IF n1 - (n0 + 1) > 9 THEN 9 ELSE n1 - (n0 + 1)
             dec   == IF frac
                      THEN TimesPow10(ConsumeDigits(data, n0 + 1, n0 + 1 + used, dec0), 9 - used)
                      ELSE dec0
             u     == UnitRun(data, n1)
             unit  == SubSeq(data, n1 + 1, u)
             d     == UnitInterval(unit)
             count == DurationOfDec(dec, bits)
         IN  IF n1 >= Len(data) THEN UnmarshalFailed("missing unit")
             ELSE IF n1 = 0 THEN UnmarshalFailed("invalid duration")
             ELSE IF d = 0 THEN UnmarshalFailed("invalid unit")
             ELSE IF d # Second /\ frac THEN UnmarshalFailed("invalid fraction")
             ELSE UnmarshalUnits(SubSeq(data, u + 1, Len(data)),
                                 DurationPlus(res, IF frac THEN count
                                                   ELSE DurationTimes(count, d)),
                                 bits)

\* Duration.UnmarshalJSON into a Duration that was zero. data[0] of an empty
\* text and data[1:0] of the text of one quote are out of range.
UnmarshalJSON(data, bits) ==
    IF Len(data) = 0 \/ data = << Quote >>
    THEN [err |-> "nil", panic |-> TRUE, d |-> Duration(0, 0)]
    ELSE IF data[1] # Quote \/ data[Len(data)] # Quote THEN UnmarshalFailed("unquoted duration")
    ELSE UnmarshalUnits(SubSeq(data, 2, Len(data) - 1), Duration(0, 0), bits)

\* The durations that are formatted: sums of these counts of the units.
MonthCounts == { 0, 1, 6, 11 }
DayCounts == { 0, 1, 7, 30 }
HourCounts == { 0, 1, 23 }
MinuteCounts == { 0, 1, 59 }
SecondCounts == { 0, 1, 2, 3, 59 }
NanoCounts == { 0, 1, 123, 123000, 500000000, 999999999 }

Durations ==
    { Duration(y * Year + mo * Month + dd * Day + h * Hour + mi * Minute + sec, ns) :
        y \in 0..MaxYears, mo \in MonthCounts, dd \in DayCounts, h \in HourCounts,
        mi \in MinuteCounts, sec \in SecondCounts, ns \in NanoCounts }

DurationIdle ==
    /\ NoClient
    /\ QueryIdle
    /\ wire = <<>>
    /\ wireEnded = FALSE
    /\ sent = <<>>
    /\ decoded = <<>>
    /\ reply = [err |-> TRUE, msg |-> NilMessage]
    /\ answer = [op |-> "none"]

\* d.MarshalJSON()
DoMarshalJSON ==
    /\ text = <<>>
    /\ text' = MarshalJSON(dur)
    /\ UNCHANGED << query, args, intBits, wire, wireEnded, sent, decoded, reply, answer, dur, parsed >>
    /\ UNCHANGED << mainPc, idx, connsField, buf, chClosed, sess, net, faults, logsLeft,
                    serverTypes, calls, crashed, closedCnt, created, unread >>
    /\ UNCHANGED callVars

\* var d Duration; d.UnmarshalJSON(text), on what MarshalJSON returned.
DoUnmarshalJSON ==
    /\ text # <<>>
    /\ parsed.op = "none"
    /\ parsed' = [op |-> "UnmarshalJSON", res |-> UnmarshalJSON(text, intBits)]
    /\ UNCHANGED << query, args, intBits, wire, wireEnded, sent, decoded, reply, answer, dur, text >>
    /\ UNCHANGED << mainPc, idx, connsField, buf, chClosed, sess, net, faults, logsLeft,
                    serverTypes, calls, crashed, closedCnt, created, unread >>
    /\ UNCHANGED callVars

InitDuration ==
    /\ DurationIdle
    /\ intBits \in IntWidths
    /\ dur \in Durations
    /\ text = <<>>
    /\ parsed = [op |-> "none"]

NextDuration ==
    \/ DoMarshalJSON
    \/ DoUnmarshalJSON

DurationSpec == InitDuration /\ [][NextDuration]_vars

\* The text of MarshalJSON was parsed by UnmarshalJSON.
RoundTripDone == parsed.op = "UnmarshalJSON"

\* C19: for every Duration d >= 0, UnmarshalJSON of the text MarshalJSON(d)
\* succeeds and yields exactly d.
C19_DurationRoundTrip ==
    RoundTripDone =>
        /\ ~parsed.res.panic
        /\ parsed.res.err = "nil"
        /\ parsed.res.d = dur

\* The same where int has 64 bits.
DurationRoundTrip64 == intBits = 64 => C19_DurationRoundTrip

\* The counts of the units of d, largest unit first, each from what the
\* larger units leave.
Years(d)   == d.s \div Year
Months(d)  == (d.s % Year) \div Month
Days(d)    == ((d.s % Year) % Month) \div Day
Hours(d)   == (((d.s % Year) % Month) % Day) \div Hour
Minutes(d) == ((((d.s % Year) % Month) % Day) % Hour) \div Minute
Seconds(d) == ((((d.s % Year) % Month) % Day) % Hour) % Minute

\* Where int has 32 bits the round trip fails exactly for a seconds part, with
\* its fraction, of 2^31 nanoseconds or more.
DurationRoundTrip32 ==
    RoundTripDone /\ intBits = 32 =>
        /\ ~parsed.res.panic
        /\ parsed.res.err = "nil"
        /\ parsed.res.d = dur
              <=> ~(dur.ns > 0 /\ ( \/ Seconds(dur) > 2
                                    \/ Seconds(dur) = 2 /\ dur.ns >= 147483648 ))

\* A count with its suffix, if the count is at least 1.
Component(n, suffix) == IF n >= 1 THEN FormatNat(n) \o suffix ELSE << >>

\* The number of '0's at the end of the 9 digits of ns, for ns > 0.
TrailingZeros(ns) == CHOOSE z \in 0..8 : ns % Pow10(z) = 0 /\ (ns \div Pow10(z)) % 10 # 0

\* The fraction: '.' and the 9 digits of ns without the '0's at their end.
Fraction(ns) ==
    IF ns = 0 THEN << >>
    ELSE << "." >> \o ZeroPad(FormatNat(ns \div Pow10(TrailingZeros(ns))), 9 - TrailingZeros(ns))

ExpectedFormat(d) ==
    IF d = Duration(0, 0) THEN << Quote, "0", "s", Quote >>
    ELSE << Quote >>
           \o Component(Years(d), << "Y" >>) \o Component(Months(d), << "M" >>)
           \o Component(Days(d), << "D" >>) \o Component(Hours(d), << "h" >>)
           \o Component(Minutes(d), << "m" >>) \o Component(Seconds(d), << >>)
           \o Fraction(d.ns)
           \o (IF Seconds(d) >= 1 \/ d.ns > 0 THEN << "s" >> ELSE << >>)
           \o << Quote >>

\* The cases that are written out.
FormatCases ==
    /\ dur = Duration(0, 0) => text = << Quote, "0", "s", Quote >>
    /\ dur = Duration(Minute, 0) => text = << Quote, "1", "m", Quote >>
    /\ dur = Duration(Year + Day + Minute, 0)
          => text = << Quote, "1", "Y", "1", "D", "1", "m", Quote >>
    /\ dur = Duration(0, 123)
          => text = << Quote, ".", "0", "0", "0", "0", "0", "0", "1", "2", "3", "s", Quote >>

\* C20: MarshalJSON(0) is "0s"; for d > 0 the text is, in quotes, the units
\* Y, M, D, h, m and whole seconds in this order, each with its greedy count
\* and only if that count is at least 1, then '.' and the nanoseconds left
\* without the zeros at their end if any are left, then 's' if and only if
\* whole seconds or a fraction were written.
C20_DurationFormat ==
    text # <<>> => text = ExpectedFormat(dur) /\ FormatCases

\* A duration of years, months and days with seconds and a fraction that ends
\* in zeros was formatted.
C20_Witness ==
    /\ dur = Duration(Year + 6 * Month + 7 * Day + 1, 123000)
    /\ text = << Quote, "1", "Y", "6", "M", "7", "D", "1", ".", "0", "0", "0", "1", "2", "3", "s", Quote >>


\* ---------------------------------------------------------------------------
\* Duration.UnmarshalJSON on texts of any shape.
\* ---------------------------------------------------------------------------

\* The largest number of characters of a text that is parsed, its quotes not
\* counted (the texts of ParseCases are longer).
MaxTextLen == 4

\* The characters of the texts: two digits, the dot, two units of the
\* format and a letter that is no unit.
TextChars == { "0", "3", ".", "s", "m", "y" }

UnitLetters == { "Y", "M", "D", "h", "m", "s" }

Quoted(s) == << Quote >> \o s \o << Quote >>

\* The texts of TestUnmarshalDuration that the characters above do not give,
\* and a fraction on every unit.
ParseCases ==
    { Quoted(<< "a", "b", "c" >>),
      Quoted(<< "1", ".", "0", "s" >>),
      Quoted(<< ".", "5", "s" >>),
      Quoted(<< "1", ".", "0", "0", "0", "1", "2", "3", "s" >>),
      Quoted(<< "1", ".", "0", "0", "0", "1", "2", "3", "4", "5", "6", "s" >>),
      Quoted(<< "1", ".", "0", "0", "0", "1", "2", "3", "4", "5", "6", "7", "s" >>),
      Quoted(<< "1", ".", "0", "0", "0", "1", "2", "3", "0", "0", "0", "1", "2", "3", "s" >>),
      Quoted(<< "1", "Y", "6", "M", "7", "D" >>) }
        \cup { Quoted(<< "1", ".", "5", u >>) : u \in UnitLetters }
        \cup { Quoted(<< "1", u >>) : u \in UnitLetters }

ParseTexts ==
    SeqsUpTo(TextChars \cup { Quote }, MaxTextLen)
        \cup { Quoted(s) : s \in SeqsUpTo(TextChars, MaxTextLen) }
        \cup ParseCases

\* What the Duration holds before UnmarshalJSON is called on it.
PriorDurations == { Duration(0, 0), Duration(7, 0) }

\* A *d = res that comes before the checks.
TargetAssigned(old, r) == r.d

\* The Duration after d.UnmarshalJSON: *d = res is the last statement, reached
\* only without an error.
Target(old, r) == IF r.err = "nil" /\ ~r.panic THEN r.d ELSE old

\* d.UnmarshalJSON(text), d being dur before.
DoUnmarshalText ==
    /\ parsed.op = "none"
    /\ parsed' = [op |-> "UnmarshalText",
                  res |-> UnmarshalJSON(text, intBits),
                  d |-> Target(dur, UnmarshalJSON(text, intBits))]
    /\ UNCHANGED << query, args, intBits, wire, wireEnded, sent, decoded, reply, answer, dur, text >>
    /\ UNCHANGED << mainPc, idx, connsField, buf, chClosed, sess, net, faults, logsLeft,
                    serverTypes, calls, crashed, closedCnt, created, unread >>
    /\ UNCHANGED callVars

InitParse ==
    /\ DurationIdle
    /\ intBits \in IntWidths
    /\ dur \in PriorDurations
    /\ text \in ParseTexts
    /\ parsed = [op |-> "none"]

NextParse == DoUnmarshalText

ParseSpec == InitParse /\ [][NextParse]_vars

\* UnmarshalJSON was called on the text.
ParseDone == parsed.op = "UnmarshalText"

\* UnmarshalJSON returned an error.
Rejected == ~parsed.res.panic /\ parsed.res.err # "nil"

\* UnmarshalJSON returned nil.
Accepted == ~parsed.res.panic /\ parsed.res.err = "nil"

\* The text has a quote as its first and another as its last character.
Enclosed(s) == Len(s) >= 2 /\ s[1] = Quote /\ s[Len(s)] = Quote

\* The text between the quotes.
Inner(s) == SubSeq(s, 2, Len(s) - 1)

\* C21: UnmarshalJSON returns an error, and does not crash, for every input
\* that is not enclosed in a leading and a trailing double quote, the empty
\* input and the input of one quote included.
C21_RejectsUnquoted ==
    ParseDone /\ ~Enclosed(text) => Rejected

\* The same for the inputs that are neither empty nor the one quote.
RejectsUnquotedOfTwo ==
    ParseDone /\ ~Enclosed(text) /\ Len(text) > 0 /\ text # << Quote >> => Rejected

\* C22: UnmarshalJSON of the input of an opening and a closing quote alone
\* returns an error.
C22_RejectsEmptyQuoted ==
    ParseDone /\ text = << Quote, Quote >> => Rejected

\* What it returns for that input: nil, and a Duration of zero.
EmptyQuotedAccepted ==
    ParseDone /\ text = << Quote, Quote >> => Accepted /\ parsed.d = Duration(0, 0)


\* A character that UnmarshalJSON takes into a unit: no digit and no dot.
IsUnitChar(c) == c # "." /\ ~IsDigit(c)

\* A unit starts at s[i].
UnitStart(s, i) == IsUnitChar(s[i]) /\ (i = 1 \/ ~IsUnitChar(s[i - 1]))

\* The unit that starts at s[i] ends at s[j].
UnitFromTo(s, i, j) ==
    /\ UnitStart(s, i)
    /\ \A k \in i..j : IsUnitChar(s[k])
    /\ (j = Len(s) \/ ~IsUnitChar(s[j + 1]))

\* The unit that starts at s[i] has no digit before it: nothing, or a dot
\* with no digit before the dot.
NoDigitsBefore(s, i) ==
    \/ i = 1
    \/ s[i - 1] = "." /\ (i = 2 \/ ~IsDigit(s[i - 2]))

MissingDigits(s) == \E i \in 1..Len(s) : UnitStart(s, i) /\ NoDigitsBefore(s, i)

\* The last component has no unit.
NoUnitAtEnd(s) == Len(s) > 0 /\ ~IsUnitChar(s[Len(s)])

\* Some unit is not one of Y, M, D, h, m, s.
BadUnit(s) ==
    \E i \in 1..Len(s) : \E j \in i..Len(s) :
        UnitFromTo(s, i, j) /\ SubSeq(s, i, j) \notin { << u >> : u \in UnitLetters }

\* C23: UnmarshalJSON returns an error for every quoted input in which some
\* unit has no digit before it (a lone unit letter, a '.' directly before a
\* unit letter), whose last component has no unit, or which has a unit that
\* is not one of Y, M, D, h, m, s.
C23_RequiresDigitsAndUnit ==
    ParseDone /\ Enclosed(text)
              /\ (MissingDigits(Inner(text)) \/ NoUnitAtEnd(Inner(text)) \/ BadUnit(Inner(text)))
        => Rejected

\* The same without the dot that has no digit: a text that starts with a
\* unit, ends without one or has a unit that is none.
RejectsLoneAndBadUnits ==
    ParseDone /\ Enclosed(text)
              /\ ( \/ Len(Inner(text)) > 0 /\ IsUnitChar(Inner(text)[1])
                   \/ NoUnitAtEnd(Inner(text))
                   \/ BadUnit(Inner(text)) )
        => Rejected

\* What it returns for ".s": nil, and a Duration of zero.
DotUnitAccepted ==
    ParseDone /\ text = Quoted(<< ".", "s" >>) => Accepted /\ parsed.res.d = Duration(0, 0)

\* A component with a '.' has one of the units Y, M, D, h, m.
FractionOnUnit(s) ==
    \E i \in 1..Len(s) :
        /\ UnitFromTo(s, i, i)
        /\ s[i] \in UnitLetters \ { "s" }
        /\ \E j \in 1..(i - 1) : s[j] = "." /\ \A k \in (j + 1)..(i - 1) : IsDigit(s[k])

\* The text is one component with a '.' and the unit s.
SecondsComponent(s) ==
    /\ Len(s) >= 2
    /\ s[Len(s)] = "s"
    /\ \E j \in 1..(Len(s) - 1) :
          s[j] = "." /\ \A k \in (1..(Len(s) - 1)) \ { j } : IsDigit(s[k])

\* C24: UnmarshalJSON returns an error, and leaves the Duration as it was,
\* whenever a component with a '.' has a unit other than s; a component with a
\* '.' and the unit s is accepted.
C24_FractionOnlyOnSeconds ==
    ParseDone /\ Enclosed(text) =>
        /\ FractionOnUnit(Inner(text)) => Rejected /\ parsed.d = dur
        /\ SecondsComponent(Inner(text)) => Accepted

\* "1.5m" was rejected and the Duration, which was not zero, is as it was.
C24_Witness ==
    /\ ParseDone
    /\ text = Quoted(<< "1", ".", "5", "m" >>)
    /\ dur = Duration(7, 0)
    /\ Rejected
    /\ parsed.d = Duration(7, 0)

\* The number that the digits s write.
RECURSIVE NatOfDigits(_)
NatOfDigits(s) ==
    IF Len(s) = 0 THEN 0
    ELSE NatOfDigits(SubSeq(s, 1, Len(s) - 1)) * 10 + DigitValue(s[Len(s)])

\* The place of the '.' in a seconds component.
DotOf(s) == CHOOSE j \in 1..Len(s) : s[j] = "."

\* The fraction digits that count: the first 9.
FractionUsed(s) == IF Len(s) - 1 - DotOf(s) > 9 THEN 9 ELSE Len(s) - 1 - DotOf(s)

\* a * 10^9 + f * 10^(9-k) nanoseconds, for the seconds component s.
ScaledSeconds(s) ==
    Duration(NatOfDigits(SubSeq(s, 1, DotOf(s) - 1)),
             NatOfDigits(SubSeq(s, DotOf(s) + 1, DotOf(s) + FractionUsed(s)))
                * Pow10(9 - FractionUsed(s)))

\* C25: a seconds component with the integer part a and the k fraction digits
\* f gives a * 10^9 + f * 10^(9-k) nanoseconds for k <= 9, and for k > 9 the
\* same of the first 9 fraction digits, without an error.
C25_FractionScaling ==
    ParseDone /\ Enclosed(text) /\ SecondsComponent(Inner(text))
        => Accepted /\ parsed.res.d = ScaledSeconds(Inner(text))

\* The same where int has 64 bits.
FractionScaling64 == intBits = 64 => C25_FractionScaling

\* "1.0001234567s" is 1000123456 ns, whatever the width of int.
FractionTruncated ==
    ParseDone /\ text = Quoted(<< "1", ".", "0", "0", "0", "1", "2", "3", "4", "5", "6", "7", "s" >>)
        => Accepted /\ parsed.res.d = Duration(1, 123456)


\* ---------------------------------------------------------------------------
\* QueryString: a query with its arguments embedded.
\*
\* A string is a sequence of one-character strings. An argument is a value
\* of one of the types of stringify, or of a type stringify does not know.
\* ---------------------------------------------------------------------------

\* The largest number of characters of a query (the queries of QueryCases
\* apart), and the largest number of arguments.
MaxQueryLen == 4
MaxArgs == 2

\* A time.Time: the date and the clock in its zone, and the offset of the
\* zone from UTC in minutes.
Time(Y, M, D, h, m, s, off) ==
    [year |-> Y, month |-> M, day |-> D, hour |-> h, min |-> m, sec |-> s, off |-> off]

NoTime == Time(0, 0, 0, 0, 0, 0, 0)

\* An argument: its type, and its value in the field of its type.
StringArg(s) == [type |-> "string", str |-> s, int |-> 0, time |-> NoTime]
IdentifierArg(s) == [type |-> "Identifier", str |-> s, int |-> 0, time |-> NoTime]
IntArg(n) == [type |-> "int", str |-> << >>, int |-> n, time |-> NoTime]
TimeArg(tm) == [type |-> "time.Time", str |-> << >>, int |-> 0, time |-> tm]
BoolArg == [type |-> "bool", str |-> << >>, int |-> 0, time |-> NoTime]

\* The layouts, as their elements: an element of the reference time stands
\* for that part of a time, any other for itself.
dtFormat == << "2006", "-", "01", "-", "02", " ", "15", ":", "04", ":", "05" >>
jsonTime == << Quote >> \o dtFormat \o << " ", "-0700", Quote >>

\* The offset as -0700 writes it.
FormatOffset(off) ==
    IF off < 0
    THEN << "-" >> \o ZeroPad(FormatNat((0 - off) \div 60), 2) \o ZeroPad(FormatNat((0 - off) % 60), 2)
    ELSE << "+" >> \o ZeroPad(FormatNat(off \div 60), 2) \o ZeroPad(FormatNat(off % 60), 2)

\* One element of a layout, for the time tm.
FormatElement(tm, e) ==
    CASE e = "2006"  -> ZeroPad(FormatNat(tm.year), 4)
      [] e = "01"    -> ZeroPad(FormatNat(tm.month), 2)
      [] e = "02"    -> ZeroPad(FormatNat(tm.day), 2)
      [] e = "15"    -> ZeroPad(FormatNat(tm.hour), 2)
      [] e = "04"    -> ZeroPad(FormatNat(tm.min), 2)
      [] e = "05"    -> ZeroPad(FormatNat(tm.sec), 2)
      [] e = "-0700" -> FormatOffset(tm.off)
      [] OTHER       -> << e >>

\* time.Time.Format
RECURSIVE Format(_, _)
Format(tm, layout) ==
    IF Len(layout) = 0 THEN << >>
    ELSE FormatElement(tm, layout[1]) \o Format(tm, SubSeq(layout, 2, Len(layout)))

\* Time.MarshalJSON
TimeMarshalJSON(tm) == Format(tm, jsonTime)

\* s with every quote character doubled.
RECURSIVE DoubleQuotes(_)
DoubleQuotes(s) ==
    IF Len(s) = 0 THEN << >>
    ELSE (IF s[1] = "'" THEN << "'", "'" >> ELSE << s[1] >>)
            \o DoubleQuotes(SubSeq(s, 2, Len(s)))

\* An EscapeString that wraps the string as it is.
EscapeStringWrapOnly(s) == << "'" >> \o s \o << "'" >>

\* proto.EscapeString
EscapeString(s) == << "'" >> \o DoubleQuotes(s) \o << "'" >>

\* What stringify makes of one value; Unsupported for the default case.
Unsupported == << "cannot embed value" >>

StringifyValue(v) ==
    CASE v.type = "int"        -> FormatNat(v.int)
      [] v.type = "Identifier" -> v.str
      [] v.type = "string"     -> EscapeString(v.str)
      [] v.type = "time.Time"  -> Format(v.time, dtFormat)
      [] OTHER                 -> Unsupported

\* stringify: the strings of the values, or the error of the first value
\* whose type it does not know.
stringify(values) ==
    IF \E i \in 1..Len(values) : StringifyValue(values[i]) = Unsupported
    THEN [str |-> << >>, err |-> "cannot embed value"]
    ELSE [str |-> [i \in 1..Len(values) |-> StringifyValue(values[i])], err |-> "nil"]

\* What fmt.Sprintf writes where something is wrong with a verb.
PercentBang == << "%", "!" >>
MissingString == << "(", "M", "I", "S", "S", "I", "N", "G", ")" >>
NoVerbString == << "%", "!", "(", "N", "O", "V", "E", "R", "B", ")" >>
ExtraString == << "%", "!", "(", "E", "X", "T", "R", "A", " " >>
StringEquals == << "s", "t", "r", "i", "n", "g", "=" >>

\* The verbs that print a string as it is.
PlainVerbs == { "s", "v" }

\* The operands that are left after the format, as %!(EXTRA ...) lists them.
RECURSIVE ExtraOperands(_, _)
ExtraOperands(a, argNum) ==
    IF argNum > Len(a) THEN << ")" >>
    ELSE StringEquals \o a[argNum]
            \o (IF argNum < Len(a) THEN << ",", " " >> ELSE << >>)
            \o ExtraOperands(a, argNum + 1)

\* fmt.Sprintf(format, a...) for operands that are strings, from format[i]
\* and operand argNum on. The formats here have no flags, widths or indexes:
\* a '%' is followed by its verb.
RECURSIVE Sprintf(_, _, _, _)
Sprintf(format, a, i, argNum) ==
    IF i > Len(format)
    THEN IF argNum <= Len(a) THEN ExtraString \o ExtraOperands(a, argNum) ELSE << >>
    ELSE IF format[i] # "%" THEN << format[i] >> \o Sprintf(format, a, i + 1, argNum)
    ELSE IF i = Len(format) THEN NoVerbString \o Sprintf(format, a, i + 1, argNum)
    ELSE IF format[i + 1] = "%" THEN << "%" >> \o Sprintf(format, a, i + 2, argNum)
    ELSE IF argNum > Len(a)
         THEN PercentBang \o << format[i + 1] >> \o MissingString
                \o Sprintf(format, a, i + 2, argNum)
    ELSE IF format[i + 1] \in PlainVerbs
         THEN a[argNum] \o Sprintf(format, a, i + 2, argNum + 1)
    ELSE PercentBang \o << format[i + 1] >> \o << "(" >> \o StringEquals \o a[argNum] \o << ")" >>
            \o Sprintf(format, a, i + 2, argNum + 1)

\* [A-Za-z]
Letters ==
    { "A", "B", "C", "D", "E", "F", "G", "H", "I", "J", "K", "L", "M",
      "N", "O", "P", "Q", "R", "S", "T", "U", "V", "W", "X", "Y", "Z",
      "a", "b", "c", "d", "e", "f", "g", "h", "i", "j", "k", "l", "m",
      "n", "o", "p", "q", "r", "s", "t", "u", "v", "w", "x", "y", "z" }

\* The index after an optional character of the set S at index i.
Optional(str, i, S) == IF i <= Len(str) /\ str[i] \in S THEN i + 1 ELSE i

\* A badArgRE that finds nothing.
BadArgNotFound(str) == FALSE

\* badArgRE.Find(str) != nil, badArgRE being %!?[A-Za-z]?\(.+
BadArgFound(str) ==
    \E i \in 1..Len(str) :
        /\ str[i] = "%"
        /\ LET p == Optional(str, Optional(str, i + 1, { "!" }), Letters)
           IN  /\ p + 1 <= Len(str)
               /\ str[p] = "("
               /\ str[p + 1] # "\n"

\* QueryString(q, args...)
QueryString(q, values) ==
    LET strs == stringify(values)
        str  == Sprintf(q, strs.str, 1, 1)
    IN  IF strs.err # "nil" THEN [s |-> << >>, err |-> strs.err]
        ELSE IF BadArgFound(str) THEN [s |-> << >>, err |-> "bad argument"]
        ELSE [s |-> str, err |-> "nil"]

\* The characters of the queries: the '%', the verb s, a verb that is no
\* verb of a string, and a character that is neither.
QueryChars == { "%", "s", "d", "=" }

\* Queries of TestQueryString.
QueryCases == { << "t", "=", "%", "s" >>, << "t", "=", "%", "d" >> }

Queries == SeqsUpTo(QueryChars, MaxQueryLen) \cup QueryCases

ArgValues ==
    { StringArg(<< >>), StringArg(<< "a" >>), StringArg(<< "'", "a" >>), StringArg(<< "'", "'" >>),
      IdentifierArg(<< "'", "a" >>),
      IntArg(1234),
      TimeArg(Time(2006, 1, 2, 15, 4, 5, 0)), TimeArg(Time(2014, 9, 18, 23, 42, 12, 120)),
      BoolArg }

\* QueryString(query, args...)
DoQueryString ==
    /\ answer.op = "none"
    /\ answer' = [op |-> "QueryString",
                  res |-> QueryString(query, args),
                  strs |-> stringify(args)]
    /\ UNCHANGED << query, args, intBits, wire, wireEnded, sent, decoded, reply, dur, text, parsed >>
    /\ UNCHANGED << mainPc, idx, connsField, buf, chClosed, sess, net, faults, logsLeft,
                    serverTypes, calls, crashed, closedCnt, created, unread >>
    /\ UNCHANGED callVars

InitQuery ==
    /\ NoClient
    /\ intBits = 64
    /\ wire = <<>>
    /\ wireEnded = FALSE
    /\ sent = <<>>
    /\ decoded = <<>>
    /\ reply = [err |-> TRUE, msg |-> NilMessage]
    /\ answer = [op |-> "none"]
    /\ dur = [s |-> 0, ns |-> 0]
    /\ text = <<>>
    /\ parsed = [op |-> "none"]
    /\ query \in Queries
    /\ args \in SeqsUpTo(ArgValues, MaxArgs)

NextQuery == DoQueryString

QuerySpec == InitQuery /\ [][NextQuery]_vars


\* QueryString was called.
QueryStringDone == answer.op = "QueryString"

\* Every '%' of the query is the '%' of a placeholder %s.
OnlyPlaceholders(q) == \A i \in 1..Len(q) : q[i] = "%" => i < Len(q) /\ q[i + 1] = "s"

\* The number of '%s' placeholders of such a query.
Placeholders(q) == Cardinality({ i \in 1..Len(q) : q[i] = "%" })

\* Every argument is of a type stringify knows.
Supported(values) ==
    \A i \in 1..Len(values) : values[i].type \in { "int", "Identifier", "string", "time.Time" }

\* The query with its placeholders, from the n-th on, replaced by the strings.
RECURSIVE Filled(_, _, _)
Filled(q, strs, n) ==
    IF Len(q) = 0 THEN << >>
    ELSE IF q[1] = "%" THEN strs[n] \o Filled(SubSeq(q, 3, Len(q)), strs, n + 1)
    ELSE << q[1] >> \o Filled(SubSeq(q, 2, Len(q)), strs, n)

\* C26: for a query with k '%s' placeholders and n arguments of supported
\* types, QueryString returns an error and the empty string whenever k # n;
\* what it returns without an error has every placeholder filled with its
\* argument.
C26_ArgumentCount ==
    QueryStringDone /\ OnlyPlaceholders(query) /\ Supported(args) =>
        /\ Placeholders(query) # Len(args) => answer.res.err # "nil" /\ answer.res.s = << >>
        /\ answer.res.err = "nil" =>
              /\ Placeholders(query) = Len(args)
              /\ answer.res.s = Filled(query, answer.strs.str, 1)

\* One placeholder got two arguments, or two placeholders got one.
C26_Witness ==
    /\ QueryStringDone
    /\ \/ query = << "%", "s" >> /\ Len(args) = 2
       \/ query = << "%", "s", "%", "s" >> /\ Len(args) = 1
    /\ Supported(args)
    /\ answer.res.err # "nil"

\* s with every pair of quote characters read as one; Broken if a quote
\* character stands alone.
Broken == << "broken" >>

RECURSIVE Unescaped(_)
Unescaped(s) ==
    IF Len(s) = 0 THEN << >>
    ELSE IF s[1] # "'"
         THEN IF Unescaped(SubSeq(s, 2, Len(s))) = Broken THEN Broken
              ELSE << s[1] >> \o Unescaped(SubSeq(s, 2, Len(s)))
    ELSE IF Len(s) < 2 \/ s[2] # "'" THEN Broken
    ELSE IF Unescaped(SubSeq(s, 3, Len(s))) = Broken THEN Broken
         ELSE << "'" >> \o Unescaped(SubSeq(s, 3, Len(s)))

\* The number of quote characters of s.
QuoteCount(s) == Cardinality({ i \in 1..Len(s) : s[i] = "'" })

\* lit is the literal of the string s: in single quotes, and between them s
\* with every quote doubled.
IsLiteralOf(lit, s) ==
    /\ Len(lit) >= 2
    /\ lit[1] = "'"
    /\ lit[Len(lit)] = "'"
    /\ Unescaped(SubSeq(lit, 2, Len(lit) - 1)) = s
    /\ QuoteCount(lit) % 2 = 0

\* C27: every plain string argument is rendered as a literal in single
\* quotes in which each quote of the string is doubled, so that the literal
\* has an even number of quotes; an Identifier is rendered as it is. The
\* string of a quote and an a, in the query s=%s, gives s= and the literal of
\* three quotes, a, one quote.
C27_StringEscaping ==
    QueryStringDone /\ answer.strs.err = "nil" =>
        /\ \A i \in 1..Len(args) :
              /\ args[i].type = "string" => IsLiteralOf(answer.strs.str[i], args[i].str)
              /\ args[i].type = "Identifier" => answer.strs.str[i] = args[i].str
        /\ query = << "s", "=", "%", "s" >> /\ args = << StringArg(<< "'", "a" >>) >>
              => answer.res = [s |-> << "s", "=", "'", "'", "'", "a", "'" >>, err |-> "nil"]

\* The string of a quote and an a, and then the Identifier of the same
\* characters, were embedded.
C27_Witness ==
    /\ QueryStringDone
    /\ query = << "%", "s", "%", "s" >>
    /\ args = << StringArg(<< "'", "a" >>), IdentifierArg(<< "'", "a" >>) >>
    /\ answer.res = [s |-> << "'", "'", "'", "a", "'", "'", "a" >>, err |-> "nil"]

\* The query is one placeholder and the argument one timestamp.
TimestampQuery ==
    QueryStringDone /\ query = << "%", "s" >> /\ Len(args) = 1 /\ args[1].type = "time.Time"

\* A string without its first and its last character.
Unquoted(s) == SubSeq(s, 2, Len(s) - 1)

\* C28: a timestamp argument is rendered as the Time encoding renders it,
\* YYYY-MM-DD hh:mm:ss and the numeric offset from UTC, without the quotes.
C28_TimestampLayout ==
    TimestampQuery =>
        answer.res = [s |-> Unquoted(TimeMarshalJSON(args[1].time)), err |-> "nil"]

\* What it is rendered as: the Time encoding without the quotes, and without
\* the blank and the five characters of the offset.
TimestampWithoutOffset ==
    TimestampQuery =>
        /\ answer.res.err = "nil"
        /\ answer.res.s \o << " " >> \o FormatOffset(args[1].time.off)
              = Unquoted(TimeMarshalJSON(args[1].time))
        /\ Len(answer.res.s) = 19

\* A caller is in Call past its receive from the channel.
InCall(p) == pc[p] \in {"send", "recv", "recv2", "defer"}

\* The Call of p was issued before Close returned.
BesideClose(p) == pc[p] # "idle" /\ ~stat[p].afterClose

\* C29: when Close runs beside callers, callers that wait for a Conn while
\* Close drains the pool included, no Call gets a nil Conn from the closed
\* channel, no Call uses a Conn that Close has closed or that another caller
\* holds, and no Call sends its Conn to the closed channel (a panic) or to
\* the nil channel (it blocks for ever).
C29_CloseRacingCall ==
    \A p \in Callers :
        BesideClose(p) =>
            /\ InCall(p) => conn[p] \in Conns
            /\ conn[p] \in Conns => closedCnt[conn[p]] = 0 /\ Holders(conn[p]) = {p}
            /\ pc[p] \notin {"blocked", "panicked"}

\* The same for the Conns a Call holds: none that Close has closed, none
\* that another caller holds.
HeldConnsLive ==
    \A p \in Callers :
        BesideClose(p) /\ conn[p] \in Conns => closedCnt[conn[p]] = 0 /\ Holders(conn[p]) = {p}

\* A caller that waited while Close drained the pool has the nil Conn.
NilConnAcquired ==
    \E p \in Callers : BesideClose(p) /\ pc[p] = "send" /\ conn[p] = NilConn /\ chClosed

\* C30: under fair scheduling, with a server that answers every request
\* with one terminal reply, a Call that has its Conn comes to return, with a
\* reply or with an error: a transport that fails while the Call is in
\* Receive does not leave it waiting for ever.
C30_CallTerminates ==
    \A p \in Callers : (InCall(p) /\ conn[p] \in Conns) ~> (pc[p] = "returned")

\* What holds: it returns unless it has come to wait, in the second Decode
\* of Receive, on the transport that Receive has just opened.
CallTerminatesUnlessHung ==
    \A p \in Callers : (InCall(p) /\ conn[p] \in Conns) ~> (pc[p] = "returned" \/ Hung)

\* A Call whose request was sent waits on a new transport that carries no
\* request and no reply.
HungOnFreshTransport ==
    \E p \in Callers :
        /\ pc[p] = "recv2"
        /\ stat[p].sends = 1
        /\ net[conn[p]] = NoNet

\* Connect has returned the error of a dial after the first.
ConnectFailedLate == mainPc = "failed" /\ idx >= 1

\* The Conns that Client.Close or Connect has closed.
ClosedConns == { s \in Conns : closedCnt[s] > 0 }

\* C31: if Connect fails at a dial after the first, the Conns it had dialed
\* are closed before it returns: no Conn is Connected after the failed
\* Connect, and as many Conns were closed as were created.
C31_NoLeakOnFailedConnect ==
    ConnectFailedLate =>
        /\ \A s \in Conns : ~IsConnected(sess[s])
        /\ Cardinality(ClosedConns) = Cardinality(created)

\* What holds after a failed Connect: every Conn it had dialed is still
\* Connected, with its transport, none was closed, and they are in the
\* channel that nobody has any more.
FailedConnectKeepsConns ==
    mainPc = "failed" =>
        /\ created = 1..idx
        /\ \A s \in created : IsConnected(sess[s]) /\ sess[s].tr # 0 /\ PoolCount(s) = 1
        /\ ClosedConns = {}

=============================================================================
